---------------------------- MODULE Spec2Model ----------------------------
(***************************************************************************)
(* Model of EMSToPowerFactoryConverter.parse_ems_file                      *)
(* (src/ems_to_powerfactory_converter.py): the section locator, the two    *)
(* tokenizers, the per-record field heuristics, the five record builders   *)
(* and the statistics aggregator.                                          *)
(*                                                                         *)
(* Text is modelled at character level: a line is a TLA+ string and a      *)
(* character is a string of length one (SubSeq(s, k, k)).  The only        *)
(* whitespace character of the modelled inputs is the space (readlines()'  *)
(* trailing newline is removed by the strip() every builder applies).      *)
(* A Python float is modelled as an exact decimal in hundredths            *)
(* ("1.02" is 102, "110.0" is 11000); the modelled inputs carry at most    *)
(* two decimals and no exponent / inf / nan spellings.                     *)
(* Cursors and line numbers are 0-based as in the Python source; Line(k)   *)
(* is the Python expression lines[k].                                      *)
(***************************************************************************)
EXTENDS Integers, Sequences, FiniteSets, TLC

VARIABLES
    lines,          \* content of the input file, one string per line
    pc,             \* position inside parse_ems_file
    i,              \* loop cursor of the running builder
    rng,            \* per builder: its local <start, end> offsets
    buses,          \* self.buses: bus number -> BusData
    loads,          \* self.loads
    generators,     \* self.generators
    branches,       \* self.branches
    transformers,   \* self.transformers
    bus_sets,       \* locals voltage_levels / areas / zones of _parse_bus_data
    statistics,     \* self.metadata["statistics"]
    conversion_info,\* self.metadata["conversion_info"]: base_frequency, description
    brand_data,     \* self.metadata["brand_data"]: generators, transformers
    log,            \* warnings emitted through self.logger.warning
    visited,        \* per builder: the line indices its loop body has read as a row
    bus_keys,       \* the keys of self.buses in insertion order
    readable,       \* open(self.input_file) succeeds
    stack,          \* the entry points being executed, outermost first
    calls,          \* the calls on the instance that have returned or raised, in order
    raw,            \* the lines of the .raw file; empty while it has not been written
    generated,      \* the output generators that have run, in order
    exit_status,    \* what main returned; -1 while it has not
    metadata_keys,  \* the top-level keys of self.metadata
    input,          \* the arguments of a function applied on its own
    output          \* its result

vars == <<lines, pc, i, rng, buses, loads, generators, branches, transformers,
          bus_sets, statistics, conversion_info, brand_data, log, visited,
          bus_keys, readable, stack, calls, raw, generated, exit_status, metadata_keys,
          input, output>>

Sections == <<"bus", "load", "gen", "branch", "tx">>
SectionSet == {Sections[k] : k \in 1..Len(Sections)}

----------------------------------------------------------------------------
(* Arithmetic helpers *)

Min2(a, b) == IF a < b THEN a ELSE b
SetMin(S) == CHOOSE x \in S : \A y \in S : x <= y
SetMax(S) == CHOOSE x \in S : \A y \in S : y <= x
Abs(x) == IF x < 0 THEN -x ELSE x

RECURSIVE SortedSeq(_)
\* sorted(list(s)) of a set of numbers
SortedSeq(S) == IF S = {} THEN <<>> ELSE <<SetMin(S)>> \o SortedSeq(S \ {SetMin(S)})

RECURSIVE SumSeq(_)
\* sum(...) over a sequence of numbers
SumSeq(s) == IF s = <<>> THEN 0 ELSE Head(s) + SumSeq(Tail(s))

----------------------------------------------------------------------------
(* Python string primitives, character by character *)

Ch(s, k) == SubSeq(s, k, k)
From(s, k) == SubSeq(s, k, Len(s))

StartsWith(s, p) == Len(s) >= Len(p) /\ SubSeq(s, 1, Len(p)) = p

\* marker in line
Contains(s, m) == \E k \in 1..(Len(s) - Len(m) + 1) : SubSeq(s, k, k + Len(m) - 1) = m

RECURSIVE LStrip(_, _)
LStrip(s, cs) == IF Len(s) > 0 /\ Ch(s, 1) \in cs THEN LStrip(From(s, 2), cs) ELSE s

RECURSIVE RStrip(_, _)
RStrip(s, cs) ==
    IF Len(s) > 0 /\ Ch(s, Len(s)) \in cs THEN RStrip(SubSeq(s, 1, Len(s) - 1), cs) ELSE s

\* str.strip(chars)
StripChars(s, cs) == RStrip(LStrip(s, cs), cs)
\* str.strip()
Strip(s) == StripChars(s, {" "})

RECURSIVE SplitFrom(_, _, _)
SplitFrom(s, k, cur) ==
    IF k > Len(s) THEN (IF cur = "" THEN <<>> ELSE <<cur>>)
    ELSE IF Ch(s, k) = " "
         THEN (IF cur = "" THEN <<>> ELSE <<cur>>) \o SplitFrom(s, k + 1, "")
         ELSE SplitFrom(s, k + 1, cur \o Ch(s, k))
\* str.split()
Split(s) == SplitFrom(s, 1, "")

RECURSIVE Join(_)
\* " ".join(parts)
Join(parts) ==
    IF parts = <<>> THEN ""
    ELSE IF Len(parts) = 1 THEN parts[1]
    ELSE parts[1] \o " " \o Join(Tail(parts))

\* parts[j] with the Python (0-based) index
P(parts, j) == parts[j + 1]

----------------------------------------------------------------------------
(* int() and float() *)

DigitChars == {"0", "1", "2", "3", "4", "5", "6", "7", "8", "9"}
DigitVal(c) ==
    CASE c = "0" -> 0 [] c = "1" -> 1 [] c = "2" -> 2 [] c = "3" -> 3 [] c = "4" -> 4
      [] c = "5" -> 5 [] c = "6" -> 6 [] c = "7" -> 7 [] c = "8" -> 8 [] c = "9" -> 9

AllDigits(s) == \A k \in 1..Len(s) : Ch(s, k) \in DigitChars

RECURSIVE DigitsVal(_)
DigitsVal(s) == IF s = "" THEN 0 ELSE 10 * DigitsVal(SubSeq(s, 1, Len(s) - 1)) + DigitVal(Ch(s, Len(s)))

HasSign(s) == Len(s) > 0 /\ Ch(s, 1) \in {"+", "-"}
Unsigned(s) == IF HasSign(s) THEN From(s, 2) ELSE s
SignOf(s) == IF Len(s) > 0 /\ Ch(s, 1) = "-" THEN -1 ELSE 1

\* int(tok) does not raise ValueError
IsInt(tok) == LET u == Unsigned(tok) IN Len(u) > 0 /\ AllDigits(u)
\* int(tok)
IntVal(tok) == SignOf(tok) * DigitsVal(Unsigned(tok))

DotAt(u) == IF \E k \in 1..Len(u) : Ch(u, k) = "."
            THEN SetMin({k \in 1..Len(u) : Ch(u, k) = "."}) ELSE 0
IntPart(u) == IF DotAt(u) = 0 THEN u ELSE SubSeq(u, 1, DotAt(u) - 1)
FracPart(u) == IF DotAt(u) = 0 THEN "" ELSE From(u, DotAt(u) + 1)

\* _is_float(tok): float(tok) does not raise ValueError
IsFloat(tok) ==
    LET u == Unsigned(tok) IN
    /\ AllDigits(IntPart(u))
    /\ AllDigits(FracPart(u))
    /\ Len(IntPart(u)) + Len(FracPart(u)) > 0

\* float(tok), in hundredths
FloatVal(tok) ==
    LET u == Unsigned(tok)
        f == FracPart(u) \o "00"
    IN SignOf(tok) * (100 * DigitsVal(IntPart(u)) + DigitsVal(SubSeq(f, 1, 2)))

\* int(x) of a float x given in hundredths: truncation towards zero
Trunc(x) == IF x < 0 THEN -((-x) \div 100) ELSE x \div 100


RECURSIVE NatStr(_)
NatStr(n) == IF n < 10 THEN Ch("0123456789", n + 1)
             ELSE NatStr(n \div 10) \o Ch("0123456789", (n % 10) + 1)
\* str(n) of an integer, as an f-string formats it
IntStr(n) == IF n < 0 THEN "-" \o NatStr(-n) ELSE NatStr(n)

----------------------------------------------------------------------------
(* Section locator *)

Line(k) == lines[k + 1]
NumLines == Len(lines)

\* a locator that scans from the top of the file, whatever its start line
FindSectionEndFromTop(start_line, marker) ==
    LET hits == {k \in 0..(NumLines - 1) : Contains(Line(k), marker)}
    IN IF hits = {} THEN NumLines ELSE SetMin(hits)

\* a locator that stops at the terminator of any section
FindAnySectionEnd(start_line, marker) ==
    LET hits == {k \in start_line..(NumLines - 1) : Contains(Line(k), "End of ")}
    IN IF hits = {} THEN NumLines ELSE SetMin(hits)

\* a locator that gives the index of the last line when the marker is missing
FindSectionEndAtLastLine(start_line, marker) ==
    LET hits == {k \in start_line..(NumLines - 1) : Contains(Line(k), marker)}
    IN IF hits = {} THEN NumLines - 1 ELSE SetMin(hits)

\* _find_section_end(lines, start_line, marker)
FindSectionEnd(start_line, marker) ==
    LET hits == {k \in start_line..(NumLines - 1) : Contains(Line(k), marker)}
    IN IF hits = {} THEN NumLines ELSE SetMin(hits)

BusMarker == "End of Bus Data"
LoadMarker == "End of Load Data"
GenMarker == "End of Generator Data"
BranchMarker == "End of Branch Data"
TxMarker == "End of Transformer Data"

\* a bus range that begins one line late
BusStartLate == 3 + 1

\* bus_start: the bus rows follow a three-line preamble
BusStart == 3

\* a bus row with one token fewer is accepted
BusMinTokensLow == 10 - 1

\* the token count a bus row needs
BusMinTokens == 10

\* a guard that lets every non-empty line through
CandidateNonEmpty(line) == line # ""

\* a guard that skips only the "0 / End of ..." terminator lines
CandidateNotTerminator(line) == line # "" /\ ~StartsWith(line, "0 /")

\* the guard every builder applies to the stripped line
Candidate(line) == line # "" /\ ~StartsWith(line, "0")

\* the index at which a "for j in range(...): if ...: break" scan stops, or -1
FirstOf(S) == IF S = {} THEN -1 ELSE SetMin(S)

NoRecord == [kind |-> "none"]
Raised == [kind |-> "error"]
Built(r) == [kind |-> "record", rec |-> r]

----------------------------------------------------------------------------
(* Bus: quote-aware tokenizer and field heuristics *)

RECURSIVE BusTokLoop(_, _, _, _)
BusTokLoop(s, k, cur, inq) ==
    IF k > Len(s) THEN (IF cur # "" THEN <<cur>> ELSE <<>>)
    ELSE IF Ch(s, k) = "'" THEN BusTokLoop(s, k + 1, cur \o Ch(s, k), ~inq)
    ELSE IF Ch(s, k) = " " /\ ~inq
         THEN (IF cur # "" THEN <<cur>> ELSE <<>>) \o BusTokLoop(s, k + 1, "", inq)
         ELSE BusTokLoop(s, k + 1, cur \o Ch(s, k), inq)

\* a tokenizer that ignores the quotes: line.split()
BusTokenizeUnquoted(line) == Split(line)

BusTokenize(line) == BusTokLoop(line, 1, "", FALSE)

\* a base-kV scan that stops one token early: range(2, min(len(parts), 7))
BusBaseKvIdxShort(parts) ==
    FirstOf({j \in 2..(Min2(Len(parts), 7) - 1) : IsFloat(P(parts, j))})

\* for j in range(2, min(len(parts), 8))
BusBaseKvIdx(parts) == FirstOf({j \in 2..(Min2(Len(parts), 8) - 1) : IsFloat(P(parts, j))})

BusBaseKv(parts) ==
    LET j == BusBaseKvIdx(parts) IN IF j = -1 THEN 0 ELSE FloatVal(P(parts, j))

BusType(parts) ==
    LET j == BusBaseKvIdx(parts) IN
    IF j # -1 /\ j + 1 < Len(parts) /\ IsFloat(P(parts, j + 1))
    THEN Trunc(FloatVal(P(parts, j + 1))) ELSE 1

\* any float token, whatever its value
AnyFloatToken(tok) == IsFloat(tok)

\* a float token lying in the per-unit window [0.8, 1.5]
InVoltageWindow(tok) == IsFloat(tok) /\ 80 <= FloatVal(tok) /\ FloatVal(tok) <= 150

\* for j in range(8, min(len(parts), 12))
BusVoltIdx(parts) ==
    FirstOf({j \in 8..(Min2(Len(parts), 12) - 1) : InVoltageWindow(P(parts, j))})

BusVoltageMagnitude(parts) ==
    LET j == BusVoltIdx(parts) IN IF j = -1 THEN 100 ELSE FloatVal(P(parts, j))

BusVoltageAngle(parts) ==
    LET j == BusVoltIdx(parts) IN
    IF j # -1 /\ j + 1 < Len(parts) /\ IsFloat(P(parts, j + 1))
    THEN FloatVal(P(parts, j + 1)) ELSE 0

\* an area scan that skips the tokens the base-kV scan has used
BusAreaIdxPastBaseKv(parts) ==
    FirstOf({j \in 6..(Min2(Len(parts), 10) - 1) :
                j > BusBaseKvIdx(parts) + 1 /\ IsFloat(P(parts, j))})

\* for j in range(6, min(len(parts), 10))
BusAreaIdx(parts) == FirstOf({j \in 6..(Min2(Len(parts), 10) - 1) : IsFloat(P(parts, j))})

BusArea(parts) ==
    LET j == BusAreaIdx(parts) IN IF j = -1 THEN 1 ELSE Trunc(FloatVal(P(parts, j)))

BusZone(parts) ==
    LET j == BusAreaIdx(parts) IN
    IF j # -1 /\ j + 1 < Len(parts) /\ IsFloat(P(parts, j + 1))
    THEN Trunc(FloatVal(P(parts, j + 1))) ELSE 1

\* the try-block of _parse_bus_data for one stripped candidate line
BusParse(line) ==
    LET parts == BusTokenize(line) IN
    IF Len(parts) < BusMinTokens THEN NoRecord
    ELSE IF ~IsInt(P(parts, 0)) THEN Raised
    ELSE Built([bus_number |-> IntVal(P(parts, 0)),
                name |-> StripChars(P(parts, 1), {"'"}),
                base_kv |-> BusBaseKv(parts),
                bus_type |-> BusType(parts),
                voltage_magnitude |-> BusVoltageMagnitude(parts),
                voltage_angle |-> BusVoltageAngle(parts),
                area |-> BusArea(parts),
                zone |-> BusZone(parts),
                max_voltage |-> 110,
                min_voltage |-> 90])

----------------------------------------------------------------------------
(* Load *)

LoadParse(line) ==
    LET parts == Split(line) IN
    IF Len(parts) < 5 THEN NoRecord
    ELSE IF ~IsInt(P(parts, 0)) \/ ~IsFloat(P(parts, 2)) \/ ~IsFloat(P(parts, 3)) THEN Raised
    ELSE Built([bus_number |-> IntVal(P(parts, 0)),
                id |-> StripChars(P(parts, 1), {"'"}),
                active_power |-> FloatVal(P(parts, 2)),
                reactive_power |-> FloatVal(P(parts, 3)),
                load_type |-> P(parts, 4),
                voltage_dependence |-> 1,
                area |-> 1,
                zone |-> 1])

----------------------------------------------------------------------------
(* Generator *)

RECURSIVE GenNumericFrom(_, _)
\* numeric_values: the float tokens of indices j..14, in order
GenNumericFrom(parts, j) ==
    IF j >= Min2(Len(parts), 15) THEN <<>>
    ELSE (IF IsFloat(P(parts, j)) THEN <<FloatVal(P(parts, j))>> ELSE <<>>)
         \o GenNumericFrom(parts, j + 1)

GenNumericValues(parts) == GenNumericFrom(parts, 2)

QuoteStart(tok) == StartsWith(tok, "'") \/ StartsWith(tok, "\"")

GenDescStart(parts) ==
    LET S == {j \in 0..(Len(parts) - 1) : QuoteStart(P(parts, j))}
    IN IF S = {} THEN -1 ELSE SetMin(S)

GenDescParts(parts) ==
    IF GenDescStart(parts) > 0
    THEN Split(StripChars(Join(SubSeq(parts, GenDescStart(parts) + 1, Len(parts))),
                          {"'", "\""}))
    ELSE <<>>

GenBrand(parts) ==
    LET d == GenDescParts(parts) IN IF d = <<>> THEN "" ELSE d[1]

GenModel(parts) ==
    LET d == GenDescParts(parts) IN
    IF Len(d) > 1 THEN Join(SubSeq(d, 2, Min2(Len(d), 3))) ELSE ""

GenParse(line) ==
    LET parts == Split(line)
        v == GenNumericValues(parts)
        n == Len(v)
        max_reactive == IF n > 2 THEN Abs(v[3]) ELSE 99900
    IN
    IF Len(parts) < 8 THEN NoRecord
    ELSE IF ~IsInt(P(parts, 0)) THEN Raised
    ELSE Built([bus_number |-> IntVal(P(parts, 0)),
                id |-> StripChars(P(parts, 1), {"'"}),
                active_power |-> IF n >= 2 THEN v[1] ELSE 0,
                reactive_power |-> IF n >= 2 THEN v[2] ELSE 0,
                max_reactive_power |-> max_reactive,
                min_reactive_power |-> IF n > 2
                                       THEN (IF n > 3 THEN -Abs(v[4]) ELSE -max_reactive)
                                       ELSE -99900,
                voltage_setpoint |-> IF n > 4 THEN v[5] ELSE 100,
                mva_base |-> IF n > 5 THEN v[6] ELSE 10000,
                inertia |-> 300,
                damping |-> 0,
                brand |-> GenBrand(parts),
                model |-> GenModel(parts),
                fuel_type |-> "Unknown",
                efficiency |-> 95,
                year_commissioned |-> 2000])

----------------------------------------------------------------------------
(* Branch *)

\* a try-block without the length gate: every field falls back to its literal
\* default when its token is missing
BranchParseWithDefaults(line) ==
    LET parts == Split(line)
        n == Len(parts)
    IN
    IF n < 2 THEN NoRecord
    ELSE IF \/ ~IsInt(P(parts, 0)) \/ ~IsInt(P(parts, 1))
            \/ \E j \in 3..Min2(6, n - 1) : ~IsFloat(P(parts, j)) THEN Raised
    ELSE Built([from_bus |-> IntVal(P(parts, 0)),
                to_bus |-> IntVal(P(parts, 1)),
                circuit_id |-> IF n > 2 THEN StripChars(P(parts, 2), {"'"}) ELSE "1",
                resistance |-> IF n > 3 THEN FloatVal(P(parts, 3)) ELSE 0,
                reactance |-> IF n > 4 THEN FloatVal(P(parts, 4)) ELSE 0,
                charging_susceptance |-> IF n > 5 THEN FloatVal(P(parts, 5)) ELSE 0,
                mva_rating |-> IF n > 6 THEN FloatVal(P(parts, 6)) ELSE 10000,
                length_km |-> 100,
                conductor_type |-> "Unknown",
                tower_type |-> "Unknown",
                brand |-> "Unknown",
                year_installed |-> 2000])

BranchParse(line) ==
    LET parts == Split(line) IN
    IF Len(parts) < 8 THEN NoRecord
    ELSE IF \/ ~IsInt(P(parts, 0)) \/ ~IsInt(P(parts, 1))
            \/ \E j \in 3..6 : ~IsFloat(P(parts, j)) THEN Raised
    ELSE Built([from_bus |-> IntVal(P(parts, 0)),
                to_bus |-> IntVal(P(parts, 1)),
                circuit_id |-> StripChars(P(parts, 2), {"'"}),
                resistance |-> FloatVal(P(parts, 3)),
                reactance |-> FloatVal(P(parts, 4)),
                charging_susceptance |-> FloatVal(P(parts, 5)),
                mva_rating |-> FloatVal(P(parts, 6)),
                length_km |-> 100,
                conductor_type |-> "Unknown",
                tower_type |-> "Unknown",
                brand |-> "Unknown",
                year_installed |-> 2000])

----------------------------------------------------------------------------
(* Transformer: header line k and the three lines after it *)

TxName(from_bus, to_bus, volt_parts) ==
    LET dflt == "TX_" \o IntStr(from_bus) \o "_" \o IntStr(to_bus)
        name_parts == StripChars(Join(SubSeq(volt_parts, 3, Len(volt_parts))), {"\""})
    IN IF Len(volt_parts) > 2 /\ name_parts # "" /\ Split(name_parts) # <<>>
       THEN Split(name_parts)[1] ELSE dflt

\* a try-block that takes the impedance line from 2 tokens on, with the rating
\* from the last of them
TxParseLenient(k) ==
    LET parts == Split(Strip(Line(k)))
        imp == Split(Strip(Line(k + 1)))
        par == Split(Strip(Line(k + 2)))
        vol == Split(Strip(Line(k + 3)))
    IN
    IF Len(parts) < 8 THEN NoRecord
    ELSE IF ~IsInt(P(parts, 0)) \/ ~IsInt(P(parts, 1)) THEN Raised
    ELSE IF Len(imp) >= 2 /\ \E j \in 0..(Len(imp) - 1) : ~IsFloat(P(imp, j)) THEN Raised
    ELSE IF Len(par) >= 2 /\ \E j \in 0..1 : ~IsFloat(P(par, j)) THEN Raised
    ELSE IF Len(vol) >= 2 /\ ~IsFloat(P(vol, 1)) THEN Raised
    ELSE Built([from_bus |-> IntVal(P(parts, 0)),
                to_bus |-> IntVal(P(parts, 1)),
                circuit_id |-> "1",
                winding_type |-> 2,
                control_method |-> 1,
                resistance |-> IF Len(imp) >= 2 THEN FloatVal(P(imp, 0)) ELSE 0,
                reactance |-> IF Len(imp) >= 2 THEN FloatVal(P(imp, 1)) ELSE 0,
                magnetizing_conductance |-> 0,
                magnetizing_susceptance |-> 0,
                nominal_mva |-> IF Len(imp) >= 2 THEN FloatVal(P(imp, Len(imp) - 1)) ELSE 10000,
                from_bus_voltage |-> IF Len(par) >= 2 THEN FloatVal(P(par, 1)) ELSE 11000,
                to_bus_voltage |-> IF Len(vol) >= 2 THEN FloatVal(P(vol, 1)) ELSE 3300,
                min_tap |-> 90,
                max_tap |-> 110,
                step_size |-> 1,
                min_angle |-> -3000,
                max_angle |-> 3000,
                angle_step |-> 100,
                tap_position |-> IF Len(par) >= 2 THEN FloatVal(P(par, 0)) ELSE 100,
                phase_angle |-> 0,
                name |-> TxName(IntVal(P(parts, 0)), IntVal(P(parts, 1)), vol),
                brand |-> "Unknown",
                model |-> "Standard",
                year_manufactured |-> 2000,
                cooling_type |-> "ONAN",
                vector_group |-> "YNd11"])

\* the try-block of _parse_transformer_data for the stripped candidate header at index k
TxParse(k) ==
    LET parts == Split(Strip(Line(k)))
        imp == Split(Strip(Line(k + 1)))
        par == Split(Strip(Line(k + 2)))
        vol == Split(Strip(Line(k + 3)))
    IN
    IF Len(parts) < 8 THEN NoRecord
    ELSE IF ~IsInt(P(parts, 0)) \/ ~IsInt(P(parts, 1)) THEN Raised
    ELSE IF Len(imp) >= 3 /\ \E j \in 0..2 : ~IsFloat(P(imp, j)) THEN Raised
    ELSE IF Len(par) >= 2 /\ \E j \in 0..1 : ~IsFloat(P(par, j)) THEN Raised
    ELSE IF Len(vol) >= 2 /\ ~IsFloat(P(vol, 1)) THEN Raised
    ELSE Built([from_bus |-> IntVal(P(parts, 0)),
                to_bus |-> IntVal(P(parts, 1)),
                circuit_id |-> "1",
                winding_type |-> 2,
                control_method |-> 1,
                resistance |-> IF Len(imp) >= 3 THEN FloatVal(P(imp, 0)) ELSE 0,
                reactance |-> IF Len(imp) >= 3 THEN FloatVal(P(imp, 1)) ELSE 0,
                magnetizing_conductance |-> 0,
                magnetizing_susceptance |-> 0,
                nominal_mva |-> IF Len(imp) >= 3 THEN FloatVal(P(imp, 2)) ELSE 10000,
                from_bus_voltage |-> IF Len(par) >= 2 THEN FloatVal(P(par, 1)) ELSE 11000,
                to_bus_voltage |-> IF Len(vol) >= 2 THEN FloatVal(P(vol, 1)) ELSE 3300,
                min_tap |-> 90,
                max_tap |-> 110,
                step_size |-> 1,
                min_angle |-> -3000,
                max_angle |-> 3000,
                angle_step |-> 100,
                tap_position |-> IF Len(par) >= 2 THEN FloatVal(P(par, 0)) ELSE 100,
                phase_angle |-> 0,
                name |-> TxName(IntVal(P(parts, 0)), IntVal(P(parts, 1)), vol),
                brand |-> "Unknown",
                model |-> "Standard",
                year_manufactured |-> 2000,
                cooling_type |-> "ONAN",
                vector_group |-> "YNd11"])

\* a warning carrying the 0-based loop index
WarningZeroBased(kind, k, line) ==
    [kind |-> kind, lineno |-> k, preview |-> SubSeq(line, 1, Min2(Len(line), 50))]

\* the warning one except-clause logs: 1-based line number and line[:50]
Warning(kind, k, line) ==
    [kind |-> kind, lineno |-> k + 1, preview |-> SubSeq(line, 1, Min2(Len(line), 50))]


----------------------------------------------------------------------------
(* Header *)

Lowers == "abcdefghijklmnopqrstuvwxyz"
Uppers == "ABCDEFGHIJKLMNOPQRSTUVWXYZ"

UpperCh(c) ==
    IF \E k \in 1..26 : Ch(Lowers, k) = c
    THEN Ch(Uppers, CHOOSE k \in 1..26 : Ch(Lowers, k) = c) ELSE c

RECURSIVE Upper(_)
\* str.upper()
Upper(s) == IF s = "" THEN "" ELSE UpperCh(Ch(s, 1)) \o Upper(From(s, 2))

RECURSIVE DigitRun(_, _)
\* the length of the run of digits of s starting at position k
DigitRun(s, k) == IF k <= Len(s) /\ Ch(s, k) \in DigitChars THEN 1 + DigitRun(s, k + 1) ELSE 0

HasNumber(line) == \E k \in 1..Len(line) : Ch(line, k) \in DigitChars

\* re.search(r'(\d+\.?\d*)', line).group(1): the leftmost match, greedy
FirstNumber(line) ==
    LET a == SetMin({k \in 1..Len(line) : Ch(line, k) \in DigitChars})
        n == DigitRun(line, a)
        dot == a + n <= Len(line) /\ Ch(line, a + n) = "."
        m == IF dot THEN DigitRun(line, a + n + 1) ELSE 0
    IN SubSeq(line, a, a + n - 1 + (IF dot THEN 1 + m ELSE 0))

RECURSIVE SlashParts(_, _)
\* str.split('/')
SlashParts(s, cur) ==
    IF s = "" THEN <<cur>>
    ELSE IF Ch(s, 1) = "/" THEN <<cur>> \o SlashParts(From(s, 2), "")
    ELSE SlashParts(From(s, 2), cur \o Ch(s, 1))

HeaderDescription(old) ==
    IF NumLines > 0 /\ Contains(Strip(Line(0)), "/")
    THEN Strip(SlashParts(Strip(Line(0)), "")[2]) ELSE old

RECURSIVE HeaderFrequency(_, _)
\* the loop over lines[:10]; every matching line overwrites the value
HeaderFrequency(k, old) ==
    IF k >= Min2(NumLines, 10) THEN old
    ELSE HeaderFrequency(k + 1,
            IF Contains(Upper(Line(k)), "BASEFREQ") /\ HasNumber(Line(k))
            THEN FloatVal(FirstNumber(Line(k))) ELSE old)

----------------------------------------------------------------------------
(* Model aggregator *)

InitialStatistics ==
    [total_buses |-> 0, total_transformers |-> 0, total_generators |-> 0,
     total_loads |-> 0, total_branches |-> 0,
     voltage_levels |-> <<>>, areas |-> <<>>, zones |-> <<>>]

\* the key order of the dict after self.buses[n] = bus: a new key goes last,
\* an existing key keeps its place
KeysAfter(keys, n) == IF \E k \in 1..Len(keys) : keys[k] = n THEN keys ELSE Append(keys, n)

\* a store that keeps the first record of a bus number
StoreBusFirstWins(bs, bus) == bs @@ (bus.bus_number :> bus)

\* self.buses[bus_number] = bus
StoreBus(bs, bus) == (bus.bus_number :> bus) @@ bs

\* the three assignments that end _parse_bus_data
BusStatistics(st, sets) ==
    [st EXCEPT !.voltage_levels = SortedSeq(sets.voltage_levels),
               !.areas = SortedSeq(sets.areas),
               !.zones = SortedSeq(sets.zones)]

\* an aggregator that adds the bus count to the count it finds
AccumulatedStatistics(st) ==
    [total_buses |-> st.total_buses + Cardinality(DOMAIN buses),
     total_transformers |-> Len(transformers),
     total_generators |-> Len(generators),
     total_loads |-> Len(loads),
     total_branches |-> Len(branches),
     total_generation_capacity_mva |-> SumSeq([k \in 1..Len(generators) |-> generators[k].mva_base]),
     total_load_demand_mw |-> SumSeq([k \in 1..Len(loads) |-> loads[k].active_power])]
    @@ st

\* _update_statistics
UpdatedStatistics(st) ==
    [total_buses |-> Cardinality(DOMAIN buses),
     total_transformers |-> Len(transformers),
     total_generators |-> Len(generators),
     total_loads |-> Len(loads),
     total_branches |-> Len(branches),
     total_generation_capacity_mva |-> SumSeq([k \in 1..Len(generators) |-> generators[k].mva_base]),
     total_load_demand_mw |-> SumSeq([k \in 1..Len(loads) |-> loads[k].active_power])]
    @@ st

----------------------------------------------------------------------------
(* Input files *)

MaxBusRows == 2
MaxRows == 2
MaxTxBlocks == 2

SeqsUpTo(S, n) == UNION {[1..k -> S] : k \in 0..n}

RECURSIVE Flatten(_)
Flatten(ss) == IF ss = <<>> THEN <<>> ELSE Head(ss) \o Flatten(Tail(ss))

MarkerOf(s) ==
    CASE s = "bus" -> BusMarker [] s = "load" -> LoadMarker [] s = "gen" -> GenMarker
      [] s = "branch" -> BranchMarker [] s = "tx" -> TxMarker

\* the terminator line of a section, present or left out
Terminator(s, present) == IF s \in present THEN <<"0 / " \o MarkerOf(s)>> ELSE <<>>

Preamble == <<"SYS / Test System", "BASEFREQ 60.0", "">>

BusPool ==
    {"101 'BUS1' 110.0 1 0 0 1 1 1.02 0.0 1 1 1.1 0.9",
     "101 'B X' 33.0 2 0 0 2 3 0.95 -5 1 1",
     "7 'C' 110.0 1 0 0 1 1 2.5 1.2 7 1",
     "x 'D' 1 1 1 1 1 1 1 1",
     "9 'E F' 20.0 1 0 0 1 1 1.0",
     "8 'G' a b c d e f g h",
     "0 / End of Load Data",
     ""}

LoadPool ==
    {"101 '1' 10.5 2 1",
     "7 'L2' 20 5 2 9",
     "x '1' 1 1 1",
     "7 '1' a 1 1",
     "7 '1' 3",
     ""}

GenPool ==
    {"101 '1' 50 10 30 -20 1.02 100 'ACME X1 Turbo 9'",
     "7 '2' 5 6 -7 x y z",
     "8 G a b c d e f",
     "x '1' 1 1 1 1 1 1",
     "7 '1' 5 6 7",
     ""}

BranchPool ==
    {"1 2 '1' 0.01 0.1 0.02 100 0",
     "2 3 'B' 0 0.2 0 50 0 0",
     "x 2 '1' 0 0 0 0 0",
     "1 2 '1' 0 r 0 0 0",
     "1 2 '1' 0.01 0.1",
     ""}

\* four-line transformer blocks: header, impedance, tap/voltage, secondary voltage/name
TxBlockPool ==
    {<<"1 2 '1' 1 1 0 0 0", "0.1 0.2 50", "1.05 110", "0 33 \"TX1\"">>,
     <<"3 4 '1' 1 1 0 0 0", "5", "9", "7">>,
     <<"x 2 '1' 1 1 0 0 0", "0.1 0.2 50", "1 110", "0 33">>,
     <<"5 6 '1' 1 1 0 0 0", "0.1 r 50", "1 110", "0 33">>,
     <<"5 6 '1' 1 1 0 0 0", "8 9 'X' 0 0 0 0 0", "1 110", "0 33">>,
     <<"5 6 '1' 1 1 0 0 0", "0.1 0.2 50", "1 110", "0 q">>}

DefaultRows(s) ==
    CASE s = "bus" -> <<"101 'BUS1' 110.0 1 0 0 1 1 1.02 0.0 1 1 1.1 0.9">>
      [] s = "load" -> <<"101 '1' 10.5 2 1">>
      [] s = "gen" -> <<"101 '1' 50 10 30 -20 1.02 100 'ACME X1 Turbo 9'">>
      [] s = "branch" -> <<"1 2 '1' 0.01 0.1 0.02 100 0">>
      [] s = "tx" -> <<"1 2 '1' 1 1 0 0 0", "0.1 0.2 50", "1.05 110", "0 33 \"TX1\"">>

\* a file: the preamble, then per section its rows and its terminator
File(rows, present) ==
    Preamble \o Flatten([k \in 1..Len(Sections) |->
                            rows[Sections[k]] \o Terminator(Sections[k], present)])

\* one section varies over its pool, the others hold their default rows
Focus(s, choices) ==
    {File([t \in SectionSet |-> IF t = s THEN c ELSE DefaultRows(t)], SectionSet) :
        c \in choices}

\* every subset of the five terminators present, default rows everywhere
MarkerFiles == {File([t \in SectionSet |-> DefaultRows(t)], pr) : pr \in SUBSET SectionSet}

\* a three-line header, one bus line, the five terminators
ExampleFile ==
    <<"SYS / Test System", "(unused header line)", "(unused header line)",
      "101 'BUS1' 110.0 1 0 0 1 1 1.02 0.0 1 1 1.1 0.9">>
    \o Flatten([k \in 1..Len(Sections) |-> Terminator(Sections[k], SectionSet)])

\* transformer sections that end inside a block: the header is among the
\* last three lines of the section
TruncatedTxFiles ==
    Focus("tx", {<<"1 2 '1' 1 1 0 0 0", "0.1 0.2 50", "1.05 110">>,
                 DefaultRows("tx") \o <<"3 4 '1' 1 1 0 0 0", "0.1 0.2 50">>,
                 <<"1 2 '1' 1 1 0 0 0">>})
        \cup {File([t \in SectionSet |->
                       IF t = "tx" THEN <<"1 2 '1' 1 1 0 0 0", "0.1 0.2 50">>
                       ELSE DefaultRows(t)],
                   SectionSet \ {"tx"})}

\* rows that are well-formed records but for a first token beginning with 0
ZeroLedRows(s) ==
    CASE s = "bus" -> <<"0101 'Z' 110.0 1 0 0 1 1 1.02 0.0 1 1">>
      [] s = "load" -> <<"  05 '1' 10.5 2 1">>
      [] s = "gen" -> <<"07 '1' 50 10 30 -20 1.02 100">>
      [] s = "branch" -> <<"01 2 '1' 0.01 0.1 0.02 100 0">>
      [] s = "tx" -> <<"01 2 '1' 1 1 0 0 0", "0.1 0.2 50", "1.05 110", "0 33 \"TX1\"">>

\* such a row alone in its section, and between two default rows
ZeroLedFiles ==
    UNION {Focus(s, {ZeroLedRows(s), DefaultRows(s) \o ZeroLedRows(s) \o DefaultRows(s)}) :
              s \in SectionSet}

\* the default file under other three-line headers; a BASEFREQ line as the
\* tenth and as the eleventh line of the file, and one after the last section
HeaderFiles ==
    LET body == [t \in SectionSet |-> DefaultRows(t)]
        rest(f) == SubSeq(f, Len(Preamble) + 1, Len(f))
        plain == <<"SYS", "no frequency", "">>
    IN {pre \o rest(File(body, SectionSet)) :
           pre \in {<<"SYS / Test System", "CASE 2 BASEFREQ 60.0", "">>,
                    <<"SYS", "60 basefreq", "">>,
                    <<"SYS / T", "BaseFreq = 60", "">>,
                    <<"BASEFREQ 50.5 / D", "Basefreq 45.25 Hz 3", "">>,
                    <<"SYS", "BASEFREQ", "">>,
                    plain}}
       \cup {plain \o rest(File([body EXCEPT !["branch"] = <<"BASEFREQ 65.0">> \o @],
                                 SectionSet)),
             plain \o rest(File([body EXCEPT !["branch"] = @ \o <<"BASEFREQ 65.0">>],
                                 SectionSet)),
             plain \o rest(File(body, SectionSet)) \o <<"BASEFREQ 70.0">>}

Files ==
    {ExampleFile}
    \cup HeaderFiles
    \cup TruncatedTxFiles
    \cup ZeroLedFiles
    \cup Focus("bus", SeqsUpTo(BusPool, MaxBusRows))
    \cup Focus("load", SeqsUpTo(LoadPool, MaxRows))
    \cup Focus("gen", SeqsUpTo(GenPool, MaxRows))
    \cup Focus("branch", SeqsUpTo(BranchPool, MaxRows))
    \cup Focus("tx", {Flatten(bs) : bs \in SeqsUpTo(TxBlockPool, MaxTxBlocks)})
    \cup MarkerFiles

----------------------------------------------------------------------------
(* State machine *)

NoRange == [start |-> -1, end |-> -1]

\* the instance as __init__ leaves it, parse_ems_file not yet entered
Constructed ==
    /\ i = 0
    /\ rng = [s \in SectionSet |-> NoRange]
    /\ buses = <<>>
    /\ bus_keys = <<>>
    /\ loads = <<>>
    /\ generators = <<>>
    /\ branches = <<>>
    /\ transformers = <<>>
    /\ bus_sets = [voltage_levels |-> {}, areas |-> {}, zones |-> {}]
    /\ statistics = InitialStatistics
    /\ conversion_info = [base_frequency |-> 5000, description |-> "Converted from EMS system format"]
    /\ brand_data = [generators |-> <<>>, transformers |-> <<>>]
    /\ log = <<>>
    /\ visited = [s \in SectionSet |-> {}]
    /\ calls = <<>>
    /\ raw = <<>>
    /\ generated = <<>>
    /\ exit_status = -1
    /\ metadata_keys = {"conversion_info", "statistics", "brand_data", "equipment_data"}

\* no function is applied on its own
NoInput == [fn |-> "none"]
Pending == [done |-> FALSE]
Returned(v) == [done |-> TRUE, value |-> v]

\* parse_ems_file has been called once on a new instance over a readable file
Init ==
    /\ lines \in Files
    /\ readable = TRUE
    /\ Constructed
    /\ pc = "idle"
    /\ stack = <<"parse_ems_file">>
    /\ input = NoInput
    /\ output = Pending

collections == <<buses, bus_keys, loads, generators, branches, transformers>>

\* what the body of parse_ems_file leaves alone
outside == <<readable, stack, calls, raw, generated, exit_status, metadata_keys,
             input, output>>

\* an open() that succeeds whatever the file
CanReadAlways == TRUE

\* open(self.input_file) followed by readlines() raises nothing
CanRead == readable

\* parse_ems_file up to and including _parse_header
ParseHeader ==
    /\ pc = "idle"
    /\ CanRead
    /\ conversion_info' = [base_frequency |-> HeaderFrequency(0, conversion_info.base_frequency),
                           description |-> HeaderDescription(conversion_info.description)]
    /\ pc' = "bus_begin"
    /\ UNCHANGED <<lines, outside, i, rng, collections, bus_sets, statistics, brand_data, log, visited>>

\* the row range of a builder whose predecessor's marker is `prev`
RangeAfter(prev, marker) ==
    LET start == FindSectionEnd(0, prev) + 1
    IN [start |-> start, end |-> FindSectionEnd(start, marker)]

\* the builder `s` enters its loop over the range r
Enter(s, r) ==
    /\ rng' = [rng EXCEPT ![s] = r]
    /\ i' = r.start
    /\ pc' = s

BusBegin ==
    /\ pc = "bus_begin"
    /\ Enter("bus", [start |-> BusStart, end |-> FindSectionEnd(BusStart, BusMarker)])
    /\ bus_sets' = [voltage_levels |-> {}, areas |-> {}, zones |-> {}]
    /\ UNCHANGED <<lines, outside, collections, statistics, conversion_info, brand_data, log, visited>>

\* one iteration of the loop of _parse_bus_data
BusStep ==
    /\ pc = "bus"
    /\ i < rng["bus"].end
    /\ LET line == Strip(Line(i))
           out == IF Candidate(line) THEN BusParse(line) ELSE NoRecord
       IN /\ buses' = IF out.kind = "record" THEN StoreBus(buses, out.rec) ELSE buses
          /\ bus_keys' = IF out.kind = "record" THEN KeysAfter(bus_keys, out.rec.bus_number)
                         ELSE bus_keys
          /\ bus_sets' = IF out.kind = "record"
                         THEN [voltage_levels |-> bus_sets.voltage_levels \cup {out.rec.base_kv},
                               areas |-> bus_sets.areas \cup {out.rec.area},
                               zones |-> bus_sets.zones \cup {out.rec.zone}]
                         ELSE bus_sets
          /\ log' = IF out.kind = "error" THEN Append(log, Warning("bus", i, line)) ELSE log
    /\ visited' = [visited EXCEPT !["bus"] = @ \cup {i}]
    /\ i' = i + 1
    /\ UNCHANGED <<lines, outside, pc, rng, loads, generators, branches, transformers,
                   statistics, conversion_info, brand_data>>

\* the end of _parse_bus_data
BusEnd ==
    /\ pc = "bus"
    /\ ~(i < rng["bus"].end)
    /\ statistics' = BusStatistics(statistics, bus_sets)
    /\ pc' = "load_begin"
    /\ UNCHANGED <<lines, outside, i, rng, collections, bus_sets, conversion_info, brand_data, log, visited>>

LoadBegin ==
    /\ pc = "load_begin"
    /\ Enter("load", RangeAfter(BusMarker, LoadMarker))
    /\ UNCHANGED <<lines, outside, collections, bus_sets, statistics, conversion_info, brand_data, log, visited>>

\* one iteration of the loop of _parse_load_data
LoadStep ==
    /\ pc = "load"
    /\ i < rng["load"].end
    /\ LET line == Strip(Line(i))
           out == IF Candidate(line) THEN LoadParse(line) ELSE NoRecord
       IN /\ loads' = IF out.kind = "record" THEN Append(loads, out.rec) ELSE loads
          /\ log' = IF out.kind = "error" THEN Append(log, Warning("load", i, line)) ELSE log
    /\ visited' = [visited EXCEPT !["load"] = @ \cup {i}]
    /\ i' = i + 1
    /\ UNCHANGED <<lines, outside, pc, rng, buses, bus_keys, generators, branches, transformers,
                   bus_sets, statistics, conversion_info, brand_data>>

GenBegin ==
    /\ pc = "load"
    /\ ~(i < rng["load"].end)
    /\ Enter("gen", RangeAfter(LoadMarker, GenMarker))
    /\ UNCHANGED <<lines, outside, collections, bus_sets, statistics, conversion_info, brand_data, log, visited>>

\* one iteration of the loop of _parse_generator_data
GenStep ==
    /\ pc = "gen"
    /\ i < rng["gen"].end
    /\ LET line == Strip(Line(i))
           out == IF Candidate(line) THEN GenParse(line) ELSE NoRecord
       IN /\ generators' = IF out.kind = "record" THEN Append(generators, out.rec) ELSE generators
          /\ brand_data' = IF out.kind = "record" /\ out.rec.brand # ""
                           THEN [brand_data EXCEPT !.generators =
                                    (out.rec.brand :> [model |-> out.rec.model,
                                                       type |-> "Synchronous Generator",
                                                       fuel_type |-> "Unknown"]) @@ @]
                           ELSE brand_data
          /\ log' = IF out.kind = "error" THEN Append(log, Warning("generator", i, line)) ELSE log
    /\ visited' = [visited EXCEPT !["gen"] = @ \cup {i}]
    /\ i' = i + 1
    /\ UNCHANGED <<lines, outside, pc, rng, buses, bus_keys, loads, branches, transformers,
                   bus_sets, statistics, conversion_info>>

BranchBegin ==
    /\ pc = "gen"
    /\ ~(i < rng["gen"].end)
    /\ Enter("branch", RangeAfter(GenMarker, BranchMarker))
    /\ UNCHANGED <<lines, outside, collections, bus_sets, statistics, conversion_info, brand_data, log, visited>>

\* one iteration of the loop of _parse_branch_data
BranchStep ==
    /\ pc = "branch"
    /\ i < rng["branch"].end
    /\ LET line == Strip(Line(i))
           out == IF Candidate(line) THEN BranchParse(line) ELSE NoRecord
       IN /\ branches' = IF out.kind = "record" THEN Append(branches, out.rec) ELSE branches
          /\ log' = IF out.kind = "error" THEN Append(log, Warning("branch", i, line)) ELSE log
    /\ visited' = [visited EXCEPT !["branch"] = @ \cup {i}]
    /\ i' = i + 1
    /\ UNCHANGED <<lines, outside, pc, rng, buses, bus_keys, loads, generators, transformers,
                   bus_sets, statistics, conversion_info, brand_data>>

\* a loop bound that leaves room for two continuation lines only
TxLoopEndLate(end) == end - 2

\* while i < transformer_end - 3
TxLoopEnd(end) == end - 3

TxBegin ==
    /\ pc = "branch"
    /\ ~(i < rng["branch"].end)
    /\ Enter("tx", RangeAfter(BranchMarker, TxMarker))
    /\ UNCHANGED <<lines, outside, collections, bus_sets, statistics, conversion_info, brand_data, log, visited>>

\* the cursor after one iteration of the while loop of _parse_transformer_data:
\* "i += 3" runs only when the record was appended, "i += 1" always
TxAdvance(k, out) == IF out.kind = "record" THEN k + 3 + 1 ELSE k + 1

\* one iteration of the while loop of _parse_transformer_data
TxStep ==
    /\ pc = "tx"
    /\ i < TxLoopEnd(rng["tx"].end)
    /\ LET line == Strip(Line(i))
           out == IF Candidate(line) THEN TxParse(i) ELSE NoRecord
       IN /\ transformers' = IF out.kind = "record" THEN Append(transformers, out.rec)
                             ELSE transformers
          /\ brand_data' = IF out.kind = "record"
                           THEN [brand_data EXCEPT !.transformers =
                                    (<<out.rec.from_bus, out.rec.to_bus>> :>
                                        [type |-> "Power Transformer",
                                         voltage_ratio |-> <<out.rec.from_bus_voltage,
                                                             out.rec.to_bus_voltage>>,
                                         mva_rating |-> out.rec.nominal_mva,
                                         vector_group |-> "YNd11",
                                         cooling_type |-> "ONAN"]) @@ @]
                           ELSE brand_data
          /\ log' = IF out.kind = "error" THEN Append(log, Warning("transformer", i, line))
                    ELSE log
          /\ i' = TxAdvance(i, out)
    /\ visited' = [visited EXCEPT !["tx"] = @ \cup {i}]
    /\ UNCHANGED <<lines, outside, pc, rng, buses, bus_keys, loads, generators, branches,
                   bus_sets, statistics, conversion_info>>

\* the transformer loop has ended; _update_statistics; parse_ems_file returns
UpdateStatistics ==
    /\ pc = "tx"
    /\ ~(i < TxLoopEnd(rng["tx"].end))
    /\ statistics' = UpdatedStatistics(statistics)
    /\ pc' = "done"
    /\ UNCHANGED <<lines, outside, i, rng, collections, bus_sets, conversion_info, brand_data, log, visited>>

Next ==
    \/ ParseHeader
    \/ BusBegin \/ BusStep \/ BusEnd
    \/ LoadBegin \/ LoadStep
    \/ GenBegin \/ GenStep
    \/ BranchBegin \/ BranchStep
    \/ TxBegin \/ TxStep
    \/ UpdateStatistics

Spec == Init /\ [][Next]_vars

----------------------------------------------------------------------------
(* Functions applied on their own: the inputs are drawn by the initial state,
   one step applies the function, the instance is left as constructed *)

\* everything but the file, the arguments and the result
instance == <<pc, i, rng, collections, bus_sets, statistics, conversion_info, brand_data,
              log, visited, readable, stack, calls, raw, generated, exit_status,
              metadata_keys>>

MaxLocatorLines == 3

LocatorPool ==
    {"0 / End of Bus Data",
     "0 / END OF BUS DATA",
     "End of Load Data x",
     "101 'BUS1' 110.0",
     ""}

\* the longest line handed to the Bus tokenizer on its own
MaxLineLen == 5

\* a letter, a second letter, the quote and the space
TokenizerAlphabet == {"a", "b", "'", " "}

RECURSIVE StringsUpTo(_, _)
StringsUpTo(A, n) ==
    IF n = 0 THEN {""}
    ELSE LET S == StringsUpTo(A, n - 1) IN S \cup {s \o c : s \in S, c \in A}

\* the most tokens of a generated bus line, and of a generated generator line
MaxBusTokens == 11
MaxGenTokens == 9

\* the numeric spelling a generated line uses at token index 2, 3, 4, ...
NumericTokens ==
    <<"110.0", "2.9", "3.7", "-4", "5", "6.9", "1.02", "8", "-9.5", "12", "13", "14">>

\* head, then n - 2 tokens: the numeric spelling at the indices in S, "x" elsewhere
TokenLine(head, n, S) ==
    Join(head \o [k \in 1..(n - 2) |-> IF (k + 1) \in S THEN NumericTokens[k] ELSE "x"])

TokenLines(head, least, most) ==
    UNION {{TokenLine(head, n, S) : S \in SUBSET (2..(n - 1))} : n \in least..most}

\* stripped candidate lines of the Bus section: every numeric pattern over the
\* token indices 2.., a name with and without a space, a short line and a
\* line whose bus number is no integer
BusLines ==
    TokenLines(<<"5", "'N'">>, BusMinTokens, MaxBusTokens)
        \cup TokenLines(<<"7", "'B X'">>, BusMinTokens, BusMinTokens)
        \cup {"5 'N' 110.0 1 x x x x x", "x 'N' 110.0 1 x x x x x x"}

\* stripped candidate lines of the Generator section: every numeric pattern
\* over the token indices 2.., lines reaching past token index 14, lines with
\* a quoted description and a quoted or bare id, a short line and a line whose
\* bus number is no integer
GenLines ==
    TokenLines(<<"5", "'1'">>, 8, MaxGenTokens)
        \cup {"5 '1' x x x x x x x x x x x 1 2 3",
              "5 '1' x x x x x x x x x x x x 2 3",
              "5 '1' x x x x x x x x x x x x x 3",
              "5 '1' 50 10 30 -20 1.02 100 'ACME X1 Turbo 9'",
              "5 G 50 10 30 -20 1.02 100 'ACME X1 Turbo 9'",
              "5 G 50 10 30 -20 1.02 100 \"Solo\"",
              "5 G 50 10 30 -20 1.02 'A B'",
              "5 G 50 10 30 -20 1.02 100",
              "5 '1' 50 10 30 -20",
              "x '1' 50 10 30 -20 1.02 100"}

\* four-line transformer blocks: one header, then every combination of an
\* impedance line, a tap / voltage line and a secondary voltage / name line
TxBlocks ==
    {<<"1 2 '1' 1 1 0 0 0", imp, par, vol>> :
        imp \in {"0.1 0.2 50", "-0.5 1 200 9", "0.1 0.2", "5", "", "0.1 r 50"},
        par \in {"1.05 110", "0.95 33 7", "1.05", "", "t 110"},
        vol \in {"0 33 \"TX1\"", "0 33 'TX1'", "0 33 \"TX1\" 7", "0 11.5 \"My TX\" 7", "0 33 \"\"",
                 "0 33 \" A\"", "0 33", "0", "", "0 q T", "x 20 T-9 \"B\""}}

\* stripped candidate lines of the Branch section: the first 1 to 9 tokens of
\* a full line, a bare circuit id, a negative value, and lines whose bus
\* numbers or values are not numeric
BranchLines ==
    {Join(SubSeq(<<"1", "2", "'B'", "0.01", "0.1", "0.02", "250", "0", "9">>, 1, n)) :
        n \in 1..9}
        \cup {"3 4 C -0.5 2 3.25 40 5",
              "x 2 '1' 0 0 0 0 0",
              "1 y '1' 0 0 0 0 0",
              "1 2 '1' 0 r 0 0 0",
              "1 2 '1' 0 0 0 r 0",
              "1 2 '1' 0 r"}

FunctionInit ==
    /\ Constructed
    /\ pc = "ready"
    /\ stack = <<>>
    /\ readable = TRUE
    /\ output = Pending
    /\ \/ /\ lines \in SeqsUpTo(LocatorPool, MaxLocatorLines)
          /\ \E s \in 0..(Len(lines) + 1), m \in {BusMarker, LoadMarker} :
                input = [fn |-> "_find_section_end", start_line |-> s, marker |-> m]
       \/ /\ lines = <<>>
          /\ \E l \in StringsUpTo(TokenizerAlphabet, MaxLineLen) :
                input = [fn |-> "bus_tokenizer", line |-> l]
       \/ /\ lines = <<>>
          /\ \E l \in BusLines : input = [fn |-> "bus_line", line |-> l]
       \/ /\ lines = <<>>
          /\ \E l \in GenLines : input = [fn |-> "generator_line", line |-> l]
       \/ /\ lines = <<>>
          /\ \E l \in BranchLines : input = [fn |-> "branch_line", line |-> l]
       \/ /\ lines \in TxBlocks
          /\ input = [fn |-> "transformer_block", index |-> 0]

\* one call of _find_section_end(lines, start_line, marker)
ApplyFindSectionEnd ==
    /\ input.fn = "_find_section_end"
    /\ ~output.done
    /\ output' = Returned(FindSectionEnd(input.start_line, input.marker))
    /\ UNCHANGED <<lines, instance, input>>

\* the tokenizer loop of _parse_bus_data over one line
ApplyBusTokenize ==
    /\ input.fn = "bus_tokenizer"
    /\ ~output.done
    /\ output' = Returned(BusTokenize(input.line))
    /\ UNCHANGED <<lines, instance, input>>

\* the try-block of _parse_bus_data over one stripped candidate line
ApplyBusParse ==
    /\ input.fn = "bus_line"
    /\ ~output.done
    /\ output' = Returned(BusParse(input.line))
    /\ UNCHANGED <<lines, instance, input>>

\* the try-block of _parse_generator_data over one stripped candidate line
ApplyGenParse ==
    /\ input.fn = "generator_line"
    /\ ~output.done
    /\ output' = Returned(GenParse(input.line))
    /\ UNCHANGED <<lines, instance, input>>

\* the try-block of _parse_branch_data over one stripped candidate line
ApplyBranchParse ==
    /\ input.fn = "branch_line"
    /\ ~output.done
    /\ output' = Returned(BranchParse(input.line))
    /\ UNCHANGED <<lines, instance, input>>

\* the try-block of _parse_transformer_data over the block at lines[index]
ApplyTxParse ==
    /\ input.fn = "transformer_block"
    /\ ~output.done
    /\ output' = Returned(TxParse(input.index))
    /\ UNCHANGED <<lines, instance, input>>

FunctionNext ==
    \/ ApplyFindSectionEnd
    \/ ApplyBusTokenize
    \/ ApplyBusParse
    \/ ApplyGenParse
    \/ ApplyBranchParse
    \/ ApplyTxParse

FunctionSpec == FunctionInit /\ [][FunctionNext]_vars


----------------------------------------------------------------------------
(* Serialization: generate_powerfactory_raw *)

\* f"{x:.<d>f}" of a float in hundredths, d >= 2: the two decimals the value
\* carries, then zeros
Fixed(x, d) ==
    LET n == Abs(x)
        frac == IF n % 100 < 10 THEN "0" \o NatStr(n % 100) ELSE NatStr(n % 100)
    IN (IF x < 0 THEN "-" ELSE "") \o NatStr(n \div 100) \o "." \o frac
       \o SubSeq("0000", 1, d - 2)

\* f"{x:.1f}" of a float in hundredths; the frequencies of the modelled inputs
\* carry at most one decimal, so nothing is rounded away
Fixed1(x) == NatStr(x \div 100) \o "." \o NatStr((x % 100) \div 10)

RECURSIVE CommaJoin(_)
\* the fields of a record line, separated by ", "
CommaJoin(fields) ==
    IF Len(fields) = 1 THEN fields[1] ELSE fields[1] \o ", " \o CommaJoin(Tail(fields))

Quoted(name) == "'" \o name \o "'"

BusLine(b) ==
    CommaJoin(<<IntStr(b.bus_number), Quoted(b.name), Fixed(b.base_kv, 2), IntStr(b.bus_type),
                Fixed(b.voltage_magnitude, 4), Fixed(b.voltage_angle, 3),
                IntStr(b.area), IntStr(b.zone),
                Fixed(b.max_voltage, 3), Fixed(b.min_voltage, 3)>>)

LoadLine(l) ==
    CommaJoin(<<IntStr(l.bus_number), Quoted(l.id), Fixed(l.active_power, 2),
                Fixed(l.reactive_power, 2), l.load_type, IntStr(l.voltage_dependence),
                IntStr(l.area), IntStr(l.zone)>>)

GenLine(g) ==
    CommaJoin(<<IntStr(g.bus_number), Quoted(g.id), Fixed(g.active_power, 2),
                Fixed(g.reactive_power, 2), Fixed(g.max_reactive_power, 2),
                Fixed(g.min_reactive_power, 2), Fixed(g.voltage_setpoint, 4),
                Fixed(g.mva_base, 2)>>)

BranchLine(b) ==
    CommaJoin(<<IntStr(b.from_bus), IntStr(b.to_bus), Quoted(b.circuit_id),
                Fixed(b.resistance, 6), Fixed(b.reactance, 6),
                Fixed(b.charging_susceptance, 6), Fixed(b.mva_rating, 2)>>)

TxLine(t) ==
    CommaJoin(<<IntStr(t.from_bus), IntStr(t.to_bus), Quoted(t.circuit_id),
                IntStr(t.winding_type), IntStr(t.control_method),
                Fixed(t.resistance, 6), Fixed(t.reactance, 6), Fixed(t.nominal_mva, 2)>>)

\* the title of a section in its "/... DATA" header
TitleOf(s) ==
    CASE s = "bus" -> "BUS" [] s = "load" -> "LOAD" [] s = "gen" -> "GENERATOR"
      [] s = "branch" -> "BRANCH" [] s = "tx" -> "TRANSFORMER"

\* len() of the collection of a section
EntityCount(s) ==
    CASE s = "bus" -> Len(bus_keys) [] s = "load" -> Len(loads) [] s = "gen" -> Len(generators)
      [] s = "branch" -> Len(branches) [] s = "tx" -> Len(transformers)

\* the record line of the k-th entity a loop over the collection yields
EntityLine(s, k) ==
    CASE s = "bus" -> BusLine(buses[bus_keys[k]])
      [] s = "load" -> LoadLine(loads[k])
      [] s = "gen" -> GenLine(generators[k])
      [] s = "branch" -> BranchLine(branches[k])
      [] s = "tx" -> TxLine(transformers[k])

\* record lines written newest entity first
RecordLinesNewestFirst(s) ==
    [k \in 1..EntityCount(s) |-> EntityLine(s, EntityCount(s) + 1 - k)]

\* the record lines of a section, in the order the collection is iterated
RecordLines(s) == [k \in 1..EntityCount(s) |-> EntityLine(s, k)]

\* self.input_file.name
InputName == "system.txt"

\* the lines generate_powerfactory_raw writes when datetime.now() formats as `now`:
\* every section but the last ends with "...\n\n"
RawFile(now) ==
    <<"0, " \o Fixed1(conversion_info.base_frequency) \o ", 30 / PowerFactory RAW File",
      "Converted from " \o InputName \o " on " \o now,
      "Base frequency: " \o Fixed(conversion_info.base_frequency, 3) \o " Hz",
      "">>
    \o Flatten([k \in 1..Len(Sections) |->
                  <<"/" \o TitleOf(Sections[k]) \o " DATA">>
                  \o RecordLines(Sections[k])
                  \o <<"0 / " \o MarkerOf(Sections[k])>>
                  \o (IF k < Len(Sections) THEN <<"">> ELSE <<>>)])

----------------------------------------------------------------------------
(* The calls made on one converter instance: parse_ems_file, convert,
   _update_statistics, in any order; or main, which builds its own instance *)

MaxCalls == 3

\* what datetime.now() may format as
Clock == {"2024-01-01 00:00:00", "2024-12-31 23:59:59"}

ConvertFiles ==
    {ExampleFile,
     <<>>,
     File([t \in SectionSet |-> DefaultRows(t)], SectionSet),
     File([t \in SectionSet |-> DefaultRows(t)], {}),
     File([t \in SectionSet |->
             CASE t = "bus" -> <<"101 'BUS1' 110.0 1 0 0 1 1 1.02 0.0 1 1 1.1 0.9",
                                 "7 'C' 110.0 1 0 0 1 1 2.5 1.2 7 1",
                                 "101 'B X' 33.0 2 0 0 2 3 0.95 -5 1 1">>
               [] t = "load" -> <<"101 '1' 10.5 2 1", "7 'L2' 20 5 2 9">>
               [] t = "gen" -> <<"101 '1' 50 10 30 -20 1.02 100 'ACME X1 Turbo 9'",
                                 "7 '2' 5 6 -7 x y z">>
               [] t = "branch" -> <<"1 2 '1' 0.01 0.1 0.02 100 0", "2 3 'B' 0 0.2 0 50 0 0">>
               [] t = "tx" -> <<"1 2 '1' 1 1 0 0 0", "0.1 0.2 50", "1.05 110", "0 33 \"TX1\"",
                                "3 4 '1' 1 1 0 0 0", "5", "9", "7">>], SectionSet)}

\* a new instance over a file that can or cannot be read; nothing is running
ConvertInit ==
    /\ lines \in ConvertFiles
    /\ readable \in BOOLEAN
    /\ Constructed
    /\ pc = "ready"
    /\ stack = <<>>
    /\ input = NoInput
    /\ output = Pending

\* the caller's record of a finished call
Finished(name, outcome) == [name |-> name, outcome |-> outcome]

parsing == <<lines, i, rng, collections, bus_sets, statistics, conversion_info, brand_data,
             log, visited, readable, input, output>>

\* a serializer that adds the equipment details to self.metadata itself
MetadataAfterJsonInPlace(keys) == keys \cup {"detailed_equipment"}

\* generate_metadata_json adds "detailed_equipment" to self.metadata.copy(), a
\* new top-level dictionary: the keys of self.metadata stay as they are
MetadataAfterJson(keys) == keys

\* converter.parse_ems_file()
CallParseEmsFile ==
    /\ pc = "ready"
    /\ Len(calls) < MaxCalls
    /\ stack' = <<"parse_ems_file">>
    /\ pc' = "idle"
    /\ UNCHANGED <<parsing, metadata_keys, calls, raw, generated, exit_status>>

\* converter.convert(), which starts with parse_ems_file
CallConvert ==
    /\ pc = "ready"
    /\ Len(calls) < MaxCalls
    /\ stack' = <<"convert", "parse_ems_file">>
    /\ pc' = "idle"
    /\ UNCHANGED <<parsing, metadata_keys, calls, raw, generated, exit_status>>

\* main(): a new instance, then convert()
CallMain ==
    /\ pc = "ready"
    /\ calls = <<>>
    /\ stack' = <<"main", "convert", "parse_ems_file">>
    /\ pc' = "idle"
    /\ UNCHANGED <<parsing, metadata_keys, calls, raw, generated, exit_status>>

\* a call of _update_statistics from outside parse_ems_file
CallUpdateStatistics ==
    /\ pc = "ready"
    /\ Len(calls) < MaxCalls
    /\ statistics' = UpdatedStatistics(statistics)
    /\ calls' = Append(calls, Finished("_update_statistics", "returned"))
    /\ UNCHANGED <<lines, pc, i, rng, collections, bus_sets, conversion_info, brand_data,
                   log, visited, readable, stack, raw, generated, exit_status, metadata_keys,
                   input, output>>

\* main's return value: 1 from its except clause, else 0
MainStatus(failed) == IF failed THEN 1 ELSE 0

\* the outermost call ends: main exits the process, any other call hands
\* control back to its caller
Unwind(outcome) ==
    /\ stack' = <<>>
    /\ IF Head(stack) = "main"
       THEN /\ exit_status' = MainStatus(outcome = "raised")
            /\ calls' = Append(calls, Finished("main", "returned"))
            /\ pc' = "exited"
       ELSE /\ exit_status' = exit_status
            /\ calls' = Append(calls, Finished(Head(stack), outcome))
            /\ pc' = "ready"

\* open() raises: parse_ems_file re-raises, convert logs and re-raises,
\* main returns from its except clause
ReadFails ==
    /\ pc = "idle"
    /\ ~CanRead
    /\ Unwind("raised")
    /\ UNCHANGED <<parsing, metadata_keys, raw, generated>>

\* parse_ems_file returns to a caller other than convert
ParseReturns ==
    /\ pc = "done"
    /\ stack = <<"parse_ems_file">>
    /\ Unwind("returned")
    /\ UNCHANGED <<parsing, metadata_keys, raw, generated>>

\* convert: parse_ems_file has returned; generate_powerfactory_raw
GenerateRaw ==
    /\ pc = "done"
    /\ Len(stack) > 1
    /\ \E now \in Clock : raw' = RawFile(now)
    /\ generated' = Append(generated, "generate_powerfactory_raw")
    /\ stack' = SubSeq(stack, 1, Len(stack) - 1)
    /\ pc' = "raw_written"
    /\ UNCHANGED <<parsing, metadata_keys, calls, exit_status>>

\* convert: generate_metadata_json
GenerateMetadataJson ==
    /\ pc = "raw_written"
    /\ metadata_keys' = MetadataAfterJson(metadata_keys)
    /\ generated' = Append(generated, "generate_metadata_json")
    /\ pc' = "json_written"
    /\ UNCHANGED <<parsing, stack, calls, raw, exit_status>>

\* convert: generate_excel_report, then convert returns the paths
GenerateExcelReport ==
    /\ pc = "json_written"
    /\ generated' = Append(generated, "generate_excel_report")
    /\ Unwind("returned")
    /\ UNCHANGED <<parsing, metadata_keys, raw>>

\* converter.generate_powerfactory_raw(), called on its own
CallGenerateRaw ==
    /\ pc = "ready"
    /\ Len(calls) < MaxCalls
    /\ \E now \in Clock : raw' = RawFile(now)
    /\ generated' = Append(generated, "generate_powerfactory_raw")
    /\ calls' = Append(calls, Finished("generate_powerfactory_raw", "returned"))
    /\ UNCHANGED <<parsing, metadata_keys, pc, stack, exit_status>>

\* converter.generate_metadata_json(), called on its own
CallGenerateMetadataJson ==
    /\ pc = "ready"
    /\ Len(calls) < MaxCalls
    /\ metadata_keys' = MetadataAfterJson(metadata_keys)
    /\ generated' = Append(generated, "generate_metadata_json")
    /\ calls' = Append(calls, Finished("generate_metadata_json", "returned"))
    /\ UNCHANGED <<parsing, pc, stack, raw, exit_status>>

\* converter.generate_excel_report(), called on its own: the summary sheet
\* reads the two aggregates, which the statistics hold only after a parse
CallGenerateExcelReport ==
    /\ pc = "ready"
    /\ Len(calls) < MaxCalls
    /\ IF "total_generation_capacity_mva" \in DOMAIN statistics
       THEN /\ generated' = Append(generated, "generate_excel_report")
            /\ calls' = Append(calls, Finished("generate_excel_report", "returned"))
       ELSE /\ generated' = generated
            /\ calls' = Append(calls, Finished("generate_excel_report", "raised"))
    /\ UNCHANGED <<parsing, metadata_keys, pc, stack, raw, exit_status>>

ConvertNext ==
    \/ Next
    \/ CallParseEmsFile \/ CallConvert \/ CallMain \/ CallUpdateStatistics
    \/ ReadFails \/ ParseReturns
    \/ GenerateRaw \/ GenerateMetadataJson \/ GenerateExcelReport
    \/ CallGenerateRaw \/ CallGenerateMetadataJson \/ CallGenerateExcelReport

ConvertSpec == ConvertInit /\ [][ConvertNext]_vars

----------------------------------------------------------------------------
(* Properties *)

AfterBus == pc \in {"load_begin", "load", "gen", "branch", "tx", "done"}

\* what the builder of section s makes of the row at index k
RowOutcome(s, k) ==
    LET line == Strip(Line(k)) IN
    IF ~Candidate(line) THEN NoRecord
    ELSE CASE s = "bus" -> BusParse(line)
           [] s = "load" -> LoadParse(line)
           [] s = "gen" -> GenParse(line)
           [] s = "branch" -> BranchParse(line)
           [] s = "tx" -> TxParse(k)

\* the rows of the bus range that yield a Bus record
BusRecordRows == {k \in rng["bus"].start..(rng["bus"].end - 1) : RowOutcome("bus", k).kind = "record"}
BusRecordAt(k) == RowOutcome("bus", k).rec

(* C1: once parse_ems_file has completed, the statistics are a function of the
   five collections as they stand: the totals are the collection sizes, the
   voltage levels / areas / zones are the sorted distinct values of the Bus
   records stored in the bus map, and the two aggregates are the sums over the
   stored generators and loads. *)
C1_StatisticsFromCollections ==
    pc = "done" =>
        /\ statistics.total_buses = Cardinality(DOMAIN buses)
        /\ statistics.total_loads = Len(loads)
        /\ statistics.total_generators = Len(generators)
        /\ statistics.total_branches = Len(branches)
        /\ statistics.total_transformers = Len(transformers)
        /\ statistics.voltage_levels = SortedSeq({buses[n].base_kv : n \in DOMAIN buses})
        /\ statistics.areas = SortedSeq({buses[n].area : n \in DOMAIN buses})
        /\ statistics.zones = SortedSeq({buses[n].zone : n \in DOMAIN buses})
        /\ statistics.total_generation_capacity_mva
              = SumSeq([k \in 1..Len(generators) |-> generators[k].mva_base])
        /\ statistics.total_load_demand_mw
              = SumSeq([k \in 1..Len(loads) |-> loads[k].active_power])

\* the transformer builder starts processing the header at index k
TxHeaderStarted(k) ==
    /\ pc = "tx"
    /\ k < rng["tx"].end - 3
    /\ Candidate(Strip(Line(k)))
    /\ Len(Split(Strip(Line(k)))) >= 8

(* C2: every step of the transformer builder that starts processing a header
   line (at least 8 tokens, three further lines before the section end) moves
   the cursor by exactly 4, whether or not the record is constructed. *)
C2_CursorAdvancesFour == [][TxHeaderStarted(i) => i' = i + 4]_vars

(* C3: after the bus builder, the bus map holds, for every bus number of a
   well-formed bus line, the record built from the last such line, and nothing
   else; its size is the number of distinct bus numbers of well-formed lines. *)
C3_LastWins ==
    AfterBus =>
        LET rec == [k \in BusRecordRows |-> BusRecordAt(k)]
            numbers == {rec[k].bus_number : k \in DOMAIN rec}
        IN /\ DOMAIN buses = numbers
           /\ \A n \in numbers :
                 buses[n] = rec[SetMax({k \in DOMAIN rec : rec[k].bus_number = n})]
           /\ Cardinality(DOMAIN buses) = Cardinality(numbers)

\* two well-formed lines share a bus number, differ, and the later one is stored
C3_Witness ==
    /\ pc = "done"
    /\ \E a, b \in BusRecordRows :
          /\ a < b
          /\ BusRecordAt(a).bus_number = BusRecordAt(b).bus_number
          /\ BusRecordAt(a) # BusRecordAt(b)
          /\ buses[BusRecordAt(b).bus_number] = BusRecordAt(b)

RECURSIVE RecordsFrom(_, _, _)
\* the records of the well-formed single-line rows k..last of section s, in input order
RecordsFrom(s, k, last) ==
    IF k > last THEN <<>>
    ELSE (IF RowOutcome(s, k).kind = "record" THEN <<RowOutcome(s, k).rec>> ELSE <<>>)
         \o RecordsFrom(s, k + 1, last)

RECURSIVE BlockRecordsFrom(_, _)
\* the records of the well-formed four-line transformer blocks from index k on, in input order
BlockRecordsFrom(k, end) ==
    IF ~(k < end - 3) THEN <<>>
    ELSE (IF RowOutcome("tx", k).kind = "record" THEN <<RowOutcome("tx", k).rec>> ELSE <<>>)
         \o BlockRecordsFrom(k + 4, end)

(* C4: in each of the five builders a malformed row never ends the scan: the
   records a section produces are exactly those of its well-formed rows, in
   input order (for the transformer section, of its well-formed four-line
   blocks). *)
C4_RecordsOfWellFormedRows ==
    pc = "done" =>
        /\ loads = RecordsFrom("load", rng["load"].start, rng["load"].end - 1)
        /\ generators = RecordsFrom("gen", rng["gen"].start, rng["gen"].end - 1)
        /\ branches = RecordsFrom("branch", rng["branch"].start, rng["branch"].end - 1)
        /\ \A k \in BusRecordRows : BusRecordAt(k).bus_number \in DOMAIN buses
        /\ transformers = BlockRecordsFrom(rng["tx"].start, rng["tx"].end)

\* the name a warning carries for the builder of section s
LogKind(s) ==
    CASE s = "gen" -> "generator" [] s = "tx" -> "transformer" [] OTHER -> s

\* the log holds a warning for row k of section s: 1-based number, line preview
Warned(s, k) ==
    \E w \in 1..Len(log) :
        /\ log[w].kind = LogKind(s)
        /\ log[w].lineno = k + 1
        /\ log[w].preview = SubSeq(Strip(Line(k)), 1, Min2(Len(Strip(Line(k))), 50))

(* C5 as stated: every candidate row a builder read without producing a record,
   rows with too few tokens included, has a warning with its 1-based line
   number and a preview of the line. *)
C5_EverySkippedRowWarned ==
    pc = "done" =>
        \A s \in SectionSet : \A k \in visited[s] :
            (Candidate(Strip(Line(k))) /\ RowOutcome(s, k).kind # "record") => Warned(s, k)

(* C5 amended: a row whose record construction raises has a warning with its
   1-based line number and the first 50 characters of the stripped line; a row
   with too few tokens, a blank row and a row starting with '0' have none; the
   log holds one warning per raising row and nothing else. *)
C5_RaisingRowsWarned ==
    pc = "done" =>
        /\ \A s \in SectionSet : \A k \in visited[s] :
              (RowOutcome(s, k).kind = "error") <=> Warned(s, k)
        /\ \A w \in 1..Len(log) :
              \E s \in SectionSet : \E k \in visited[s] :
                  /\ RowOutcome(s, k).kind = "error"
                  /\ log[w].kind = LogKind(s) /\ log[w].lineno = k + 1
        /\ Len(log) = Cardinality({<<s, k>> \in SectionSet \X (0..NumLines) :
                                      k \in visited[s] /\ RowOutcome(s, k).kind = "error"})

\* one row raised and was warned about, another had too few tokens and was not
C5_Witness ==
    /\ pc = "done"
    /\ \E s \in SectionSet : \E a, b \in visited[s] :
          /\ RowOutcome(s, a).kind = "error" /\ Warned(s, a)
          /\ Candidate(Strip(Line(b))) /\ RowOutcome(s, b).kind = "none" /\ ~Warned(s, b)

\* token indices 8..11 of a bus line holding a float within [0.8, 1.5]
C6_Qualifying(parts) ==
    {j \in 8..11 : j < Len(parts) /\ IsFloat(P(parts, j))
                   /\ FloatVal(P(parts, j)) >= 80 /\ FloatVal(P(parts, j)) <= 150}

C6_Magnitude(parts) ==
    IF C6_Qualifying(parts) = {} THEN 100 ELSE FloatVal(P(parts, SetMin(C6_Qualifying(parts))))

C6_Angle(parts) ==
    LET q == C6_Qualifying(parts) IN
    IF q # {} /\ SetMin(q) + 1 < Len(parts) /\ IsFloat(P(parts, SetMin(q) + 1))
    THEN FloatVal(P(parts, SetMin(q) + 1)) ELSE 0

(* C6: every stored Bus record has the voltage magnitude of the first token of
   indices 8..11 of its line that is a float within [0.8, 1.5] (1.0 when there
   is none) and the angle of the token after it when numeric (else 0.0); so
   0.8 <= voltage_magnitude <= 1.5 for every Bus record. *)
C6_VoltageRecovered ==
    \A n \in DOMAIN buses :
        /\ buses[n].voltage_magnitude >= 80
        /\ buses[n].voltage_magnitude <= 150
        /\ \E k \in visited["bus"] :
              LET parts == BusTokenize(Strip(Line(k))) IN
              /\ Len(parts) >= 10
              /\ IsInt(P(parts, 0)) /\ IntVal(P(parts, 0)) = n
              /\ buses[n].name = StripChars(P(parts, 1), {"'"})
              /\ buses[n].voltage_magnitude = C6_Magnitude(parts)
              /\ buses[n].voltage_angle = C6_Angle(parts)

\* a magnitude recovered past an out-of-window float, and a defaulted magnitude
C6_Witness ==
    /\ pc = "done"
    /\ \E n, m \in DOMAIN buses :
          /\ buses[n].voltage_magnitude = 120 /\ buses[n].voltage_angle = 700
          /\ \E k \in visited["bus"] :
                LET parts == BusTokenize(Strip(Line(k))) IN
                /\ Len(parts) >= 10 /\ IsInt(P(parts, 0)) /\ IntVal(P(parts, 0)) = m
                /\ C6_Qualifying(parts) = {}
                /\ buses[m].voltage_magnitude = 100

\* the bus builder is about to read a candidate line of fewer than 10 tokens
ShortBusLine(k) ==
    /\ pc = "bus"
    /\ k < rng["bus"].end
    /\ Candidate(Strip(Line(k)))
    /\ Len(BusTokenize(Strip(Line(k)))) < 10

(* C7: a bus line of fewer than 10 tokens creates no Bus record and raises
   nothing, and the scan moves to the next line. *)
C7_ShortBusLineSkipped ==
    [][ShortBusLine(i) => /\ buses' = buses
                          /\ log' = log
                          /\ pc' = "bus"
                          /\ i' = i + 1]_vars

\* a short line was read without record or warning and the well-formed line after it is stored
C7_Witness ==
    /\ pc = "done"
    /\ \E k \in visited["bus"] :
          /\ Candidate(Strip(Line(k)))
          /\ Len(BusTokenize(Strip(Line(k)))) \in 1..9
          /\ Len(Split(Strip(Line(k)))) >= 10
          /\ ~Warned("bus", k)
          /\ k + 1 \in BusRecordRows
          /\ buses[BusRecordAt(k + 1).bus_number] = BusRecordAt(k + 1)

(* C8: the Bus builder starts at 3, and every other builder starts one past
   the end offset its predecessor used for its own range. *)
C8_StartIsPreviousEndPlusOne ==
    /\ rng["bus"] # NoRange => rng["bus"].start = 3
    /\ \A n \in 2..Len(Sections) :
          rng[Sections[n]] # NoRange => rng[Sections[n]].start = rng[Sections[n - 1]].end + 1

\* the row indices the builder of section s scans
Rows(s) == IF rng[s] = NoRange THEN {} ELSE rng[s].start..(rng[s].end - 1)

(* C9: the row ranges of the five builders are pairwise disjoint and ordered
   Bus, Load, Generator, Branch, Transformer; no line is read by two builders. *)
C9_RangesDisjointOrdered ==
    \A m, n \in 1..Len(Sections) :
        m < n => /\ \A a \in Rows(Sections[m]) : \A b \in Rows(Sections[n]) : a < b
                 /\ visited[Sections[m]] \cap visited[Sections[n]] = {}

(* C10: the bus range ends at the first line of index >= 3 containing
   "End of Bus Data" (the input length when there is none); no other
   terminator ends it, and every line before that end is read as a bus row. *)
C10_BusRangeEndsAtBusMarker ==
    rng["bus"] # NoRange =>
        /\ rng["bus"].start = 3
        /\ rng["bus"].end <= NumLines
        /\ \A k \in 3..(rng["bus"].end - 1) : ~Contains(Line(k), "End of Bus Data")
        /\ rng["bus"].end < NumLines => Contains(Line(rng["bus"].end), "End of Bus Data")
        /\ AfterBus =>
              /\ visited["bus"] = 3..(rng["bus"].end - 1)
              /\ \A k \in BusRecordRows : BusRecordAt(k).bus_number \in DOMAIN buses

\* a Load terminator lies inside the bus range and a bus line after it is stored
C10_Witness ==
    /\ pc = "done"
    /\ \E a, b \in visited["bus"] :
          /\ a < b
          /\ Contains(Line(a), "End of Load Data")
          /\ b \in BusRecordRows
          /\ buses[BusRecordAt(b).bus_number] = BusRecordAt(b)

(* C11: _find_section_end(lines, start, marker) returns the smallest index
   i >= start whose line contains the marker, compared character by character
   (case-sensitive), and len(lines) when there is no such line; the call
   changes nothing of the instance. *)
C11_FindSectionEndIsFirstMatch ==
    (input.fn = "_find_section_end" /\ output.done) =>
        LET r == output.value
            matches == {k \in 0..(NumLines - 1) :
                          k >= input.start_line /\ Contains(Line(k), input.marker)}
        IN /\ matches # {} => r \in matches /\ \A k \in matches : r <= k
           /\ matches = {} => r = NumLines
           /\ Constructed

\* the marker occurs before the start line and in other letter case after it;
\* the result is the later exact occurrence
C11_Witness ==
    /\ input.fn = "_find_section_end" /\ output.done
    /\ input.start_line > 0
    /\ NumLines > 0
    /\ Contains(Line(0), input.marker)
    /\ output.value < NumLines
    /\ \E k \in input.start_line..(output.value - 1) :
          /\ ~Contains(Line(k), input.marker)
          /\ Contains(Upper(Line(k)), Upper(input.marker))

(* C12: parsing the example input (three header lines, one bus line, the five
   terminators in order) yields exactly one Bus record, 101 "BUS1" at 110.0 kV
   with voltage 1.02 at angle 0.0; the other four collections are empty; the
   statistics report one bus and the voltage levels [110.0]. *)
C12_ExampleParsed ==
    (lines = ExampleFile /\ pc = "done") =>
        /\ DOMAIN buses = {101}
        /\ buses[101].bus_number = 101
        /\ buses[101].name = "BUS1"
        /\ buses[101].base_kv = 11000
        /\ buses[101].voltage_magnitude = 102
        /\ buses[101].voltage_angle = 0
        /\ loads = <<>> /\ generators = <<>> /\ branches = <<>> /\ transformers = <<>>
        /\ statistics.total_buses = 1
        /\ statistics.voltage_levels = <<11000>>

\* the example has been parsed: its nine lines, the bus line read, the bus stored
C12_Witness ==
    /\ lines = ExampleFile /\ pc = "done"
    /\ NumLines = 9
    /\ Line(3) = "101 'BUS1' 110.0 1 0 0 1 1 1.02 0.0 1 1 1.1 0.9"
    /\ visited["bus"] = {3}
    /\ 101 \in DOMAIN buses

RECURSIVE TxScanFrom(_, _)
\* the records one pass of the transformer loop yields from index k on
TxScanFrom(k, end) ==
    IF ~(k < end - 3) THEN <<>>
    ELSE (IF RowOutcome("tx", k).kind = "record" THEN <<RowOutcome("tx", k).rec>> ELSE <<>>)
         \o TxScanFrom(TxAdvance(k, RowOutcome("tx", k)), end)

\* the collections and totals hold what one pass over the input yields
SinglePass ==
    /\ loads = RecordsFrom("load", rng["load"].start, rng["load"].end - 1)
    /\ generators = RecordsFrom("gen", rng["gen"].start, rng["gen"].end - 1)
    /\ branches = RecordsFrom("branch", rng["branch"].start, rng["branch"].end - 1)
    /\ transformers = TxScanFrom(rng["tx"].start, rng["tx"].end)
    /\ DOMAIN buses = {BusRecordAt(k).bus_number : k \in BusRecordRows}
    /\ statistics.total_loads = Len(RecordsFrom("load", rng["load"].start, rng["load"].end - 1))
    /\ statistics.total_generators = Len(RecordsFrom("gen", rng["gen"].start, rng["gen"].end - 1))
    /\ statistics.total_branches = Len(RecordsFrom("branch", rng["branch"].start, rng["branch"].end - 1))
    /\ statistics.total_transformers = Len(TxScanFrom(rng["tx"].start, rng["tx"].end))
    /\ statistics.total_buses = Cardinality({BusRecordAt(k).bus_number : k \in BusRecordRows})

(* C13: whenever a parse_ems_file pass has completed, directly or inside
   convert, and however many calls went before it on the same instance, every
   entity of the input is in its collection exactly once: the load, generator,
   branch and transformer sequences and the statistics are those of a single
   pass over the input. *)
C13_EveryEntityOnce == pc = "done" => SinglePass

\* the three output generators
GeneratorNames ==
    {"generate_powerfactory_raw", "generate_metadata_json", "generate_excel_report"}

(* C14: when the input file cannot be read, parse_ems_file raises before any
   builder runs: the five collections stay empty, no row range is computed, no
   row is read and the statistics keep their initial values; every
   parse_ems_file and convert call ends by raising, convert runs no output
   generator (the generators that ran are those called on their own) and
   writes nothing; main returns 1. *)
C14_UnreadablePropagates ==
    ~readable =>
        /\ buses = <<>> /\ bus_keys = <<>> /\ loads = <<>> /\ generators = <<>>
        /\ branches = <<>> /\ transformers = <<>>
        /\ \A s \in SectionSet : rng[s] = NoRange /\ visited[s] = {}
        /\ pc \in {"ready", "idle", "exited"}
        /\ (\A k \in 1..Len(calls) : calls[k].name # "_update_statistics")
              => statistics = InitialStatistics
        /\ \A k \in 1..Len(calls) :
              calls[k].name \in {"parse_ems_file", "convert"} => calls[k].outcome = "raised"
        /\ Len(generated) = Cardinality({k \in 1..Len(calls) :
                                            /\ calls[k].name \in GeneratorNames
                                            /\ calls[k].outcome = "returned"})
        /\ (\A k \in 1..Len(calls) : calls[k].name # "generate_powerfactory_raw")
              => raw = <<>>
        /\ exit_status \in {-1, 1}
        /\ pc = "exited" => exit_status = 1

\* main has run over an unreadable file whose content holds records, and returned 1
C14_Witness ==
    /\ ~readable
    /\ calls = <<Finished("main", "returned")>>
    /\ exit_status = 1
    /\ \E k \in 0..(NumLines - 1) : RowOutcome("bus", k).kind = "record"

\* the last finished call other than an output generator ended with
\* _update_statistics (it is _update_statistics, or a parse_ems_file / convert
\* that returned) and no collection has changed since
JustAggregated ==
    /\ pc = "ready"
    /\ LET other == {k \in 1..Len(calls) : calls[k].name \notin GeneratorNames}
       IN other # {} /\ calls[SetMax(other)].outcome = "returned"

(* C15: a call of _update_statistics that follows a run of _update_statistics
   with no change to the five collections in between leaves the statistics as
   they were. *)
C15_SecondUpdateChangesNothing ==
    [][(JustAggregated /\ calls' = Append(calls, Finished("_update_statistics", "returned")))
          => statistics' = statistics]_vars

\* after a parse that stored records, _update_statistics has been called twice in a row
C15_Witness ==
    /\ Len(calls) = 3
    /\ calls[1] = Finished("parse_ems_file", "returned")
    /\ calls[2].name = "_update_statistics" /\ calls[3].name = "_update_statistics"
    /\ loads # <<>> /\ generators # <<>> /\ buses # <<>>
    /\ statistics.total_loads = Len(loads)
    /\ statistics.total_load_demand_mw > 0

\* the last finished call is a convert that returned, in main or on its own
AfterConvert ==
    /\ pc \in {"ready", "exited"}
    /\ calls # <<>>
    /\ \/ calls[Len(calls)] = Finished("convert", "returned")
       \/ calls[Len(calls)] = Finished("main", "returned") /\ exit_status = 0

C17_Header(s) ==
    CASE s = "bus" -> "/BUS DATA" [] s = "load" -> "/LOAD DATA" [] s = "gen" -> "/GENERATOR DATA"
      [] s = "branch" -> "/BRANCH DATA" [] s = "tx" -> "/TRANSFORMER DATA"

C17_Trailer(s) ==
    CASE s = "bus" -> "0 / End of Bus Data" [] s = "load" -> "0 / End of Load Data"
      [] s = "gen" -> "0 / End of Generator Data" [] s = "branch" -> "0 / End of Branch Data"
      [] s = "tx" -> "0 / End of Transformer Data"

RECURSIVE C17_Start(_, _, _)
\* where the header of the k-th section lies in a file that begins with `lead`
\* lines and keeps `gap` lines between a trailer and the next header
C17_Start(k, lead, gap) ==
    IF k = 1 THEN lead + 1
    ELSE C17_Start(k - 1, lead, gap) + EntityCount(Sections[k - 1]) + 2 + gap

\* the file is `lead` lines, the first naming the format, then the five
\* sections in order, `gap` lines apart: header, one line per entity in
\* collection order, trailer; and nothing else
C17_Layout(lead, gap) ==
    /\ Len(raw) = C17_Start(Len(Sections), lead, gap) + EntityCount("tx") + 1
    /\ Contains(raw[1], "PowerFactory RAW File")
    /\ \A k \in 1..Len(Sections) :
          LET s == Sections[k]
              p == C17_Start(k, lead, gap)
          IN /\ raw[p] = C17_Header(s)
             /\ \A j \in 1..EntityCount(s) : raw[p + j] = EntityLine(s, j)
             /\ raw[p + EntityCount(s) + 1] = C17_Trailer(s)

(* C17 as stated: after a successful convert the raw file is one first line
   containing 'PowerFactory RAW File', then the five sections Bus, Load,
   Generator, Branch, Transformer, each a header, one record line per entity
   in collection order and a trailer, and no other line. *)
C17_FirstLineThenSections == AfterConvert => C17_Layout(1, 0)

(* C17 amended: the file begins with four lines (the 'PowerFactory RAW File'
   line, a 'Converted from <input> on <time>' line, a 'Base frequency: ... Hz'
   line, an empty line); the five sections follow in the order Bus, Load,
   Generator, Branch, Transformer, each a header, one record line per entity
   in collection order and a trailer, with one empty line after each of the
   first four trailers. *)
C17_HeaderBlockThenSections ==
    AfterConvert =>
        /\ C17_Layout(4, 1)
        /\ StartsWith(raw[2], "Converted from ")
        /\ StartsWith(raw[3], "Base frequency: ")
        /\ raw[4] = ""
        /\ \A k \in 2..Len(Sections) : raw[C17_Start(k, 4, 1) - 1] = ""

\* a convert over a file with three bus lines for two bus numbers and two
\* entities in every other section: the bus stored first leads its section
\* with the values of its later line
C17_Witness ==
    /\ AfterConvert
    /\ bus_keys = <<101, 7>>
    /\ Len(loads) = 2 /\ Len(generators) = 2 /\ Len(branches) = 2 /\ Len(transformers) = 2
    /\ raw[5] = "/BUS DATA"
    /\ StartsWith(raw[6], "101, 'B X', 33.00, 2, 0.9500, -5.000, 2, 3, ")
    /\ StartsWith(raw[7], "7, 'C', ")
    /\ raw[8] = "0 / End of Bus Data"
    /\ raw[Len(raw)] = "0 / End of Transformer Data"

----------------------------------------------------------------------------
(* C16: the quote-aware Bus tokenizer *)

QuotesBefore(s, k) == Cardinality({m \in 1..(k - 1) : Ch(s, m) = "'"})

\* a space preceded by an even number of quotes
Boundary(s, k) == Ch(s, k) = " " /\ QuotesBefore(s, k) % 2 = 0

\* the maximal runs of characters that are not boundaries, left to right
Runs(s) ==
    LET a == SortedSeq({k \in 1..Len(s) :
                          ~Boundary(s, k) /\ (k = 1 \/ Boundary(s, k - 1))})
        b == SortedSeq({k \in 1..Len(s) :
                          ~Boundary(s, k) /\ (k = Len(s) \/ Boundary(s, k + 1))})
    IN [j \in 1..Len(a) |-> SubSeq(s, a[j], b[j])]

RECURSIVE Concat(_)
Concat(parts) == IF parts = <<>> THEN "" ELSE parts[1] \o Concat(Tail(parts))

RECURSIVE WithoutBoundaries(_, _)
WithoutBoundaries(s, k) ==
    IF k > Len(s) THEN ""
    ELSE (IF Boundary(s, k) THEN "" ELSE Ch(s, k)) \o WithoutBoundaries(s, k + 1)

Tokenized == input.fn = "bus_tokenizer" /\ output.done

\* C16: for any line the tokens are the maximal runs between the spaces that
\* have an even number of quotes before them; no token is empty; the quotes
\* stay in the tokens; the tokens concatenated are the line without those
\* spaces; a line of spaces only gives the empty sequence; after an unmatched
\* quote the rest of the line, spaces included, is the tail of the last token.
C16_QuoteAwareTokens ==
    Tokenized =>
        LET s == input.line
            parts == output.value
            quotes == {k \in 1..Len(s) : Ch(s, k) = "'"}
        IN /\ parts = Runs(s)
           /\ \A j \in 1..Len(parts) : parts[j] # ""
           /\ QuotesBefore(Concat(parts), Len(Concat(parts)) + 1) = Cardinality(quotes)
           /\ Concat(parts) = WithoutBoundaries(s, 1)
           /\ (\A k \in 1..Len(s) : Ch(s, k) = " ") => parts = <<>>
           /\ Cardinality(quotes) % 2 = 1 =>
                 /\ parts # <<>>
                 /\ LET last == parts[Len(parts)]
                        rest == From(s, SetMax(quotes))
                    IN /\ Len(last) >= Len(rest)
                       /\ From(last, Len(last) - Len(rest) + 1) = rest

\* an unmatched quote takes the rest of the line, its space included, into
\* one token
C16_Witness ==
    /\ Tokenized
    /\ input.line = "a ' b"
    /\ output.value = <<"a", "' b">>

----------------------------------------------------------------------------
(* C18: the numeric values of a generator line *)

GenParsed == input.fn = "generator_line" /\ output.done /\ output.value.kind = "record"

\* the float tokens among the token indices 2..14, in order
C18_V(parts) ==
    LET idx == SortedSeq({j \in 2..14 : j < Len(parts) /\ IsFloat(P(parts, j))})
    IN [k \in 1..Len(idx) |-> FloatVal(P(parts, idx[k]))]

\* C18: for a generator line with at least 8 tokens the first six entries of V
\* map positionally to active power, reactive power, max reactive (absolute
\* value), min reactive (negated absolute value, or the negated max reactive
\* without a fourth entry), voltage setpoint and MVA base; a field without an
\* entry takes its default; so min_reactive_power <= 0 <= max_reactive_power.
C18_PositionalMapping ==
    GenParsed =>
        LET V == C18_V(Split(input.line))
            n == Len(V)
            g == output.value.rec
        IN /\ g.active_power = IF n >= 1 THEN V[1] ELSE 0
           /\ g.reactive_power = IF n >= 2 THEN V[2] ELSE 0
           /\ g.max_reactive_power = IF n >= 3 THEN Abs(V[3]) ELSE 99900
           /\ g.min_reactive_power = IF n >= 4 THEN -Abs(V[4])
                                     ELSE -g.max_reactive_power
           /\ g.voltage_setpoint = IF n >= 5 THEN V[5] ELSE 100
           /\ g.mva_base = IF n >= 6 THEN V[6] ELSE 10000
           /\ g.min_reactive_power <= 0
           /\ 0 <= g.max_reactive_power

----------------------------------------------------------------------------
(* C19, C20: the field heuristics of a bus line *)

BusParsed == input.fn = "bus_line" /\ output.done /\ output.value.kind = "record"

\* the token indices of first..last that exist and hold a float
FloatsAmong(parts, first, last) ==
    {j \in first..last : j < Len(parts) /\ IsFloat(P(parts, j))}

\* int(float(token)) of the token at index j, or 1 when it is absent or no float
IntAfter(parts, j) ==
    IF j < Len(parts) /\ IsFloat(P(parts, j)) THEN Trunc(FloatVal(P(parts, j))) ELSE 1

\* C19: for a well-formed bus line base_kv is the float value of the first
\* float token among the token indices 2..7 (0.0 without one) and bus_type is
\* the token right after it as a float truncated to an integer, or 1 when that
\* token is no float or no base-kV token was found.
C19_BaseKvAndBusType ==
    BusParsed =>
        LET parts == BusTokenize(input.line)
            found == FloatsAmong(parts, 2, 7)
            b == output.value.rec
        IN IF found = {} THEN b.base_kv = 0 /\ b.bus_type = 1
           ELSE /\ b.base_kv = FloatVal(P(parts, SetMin(found)))
                /\ b.bus_type = IntAfter(parts, SetMin(found) + 1)

\* the first float token is the one at index 3, after a non-numeric token 2;
\* the token after it, 3.7, gives bus type 3
C19_Witness ==
    /\ BusParsed
    /\ LET parts == BusTokenize(input.line)
       IN /\ ~IsFloat(P(parts, 2))
          /\ P(parts, 3) = "2.9"
          /\ P(parts, 4) = "3.7"
    /\ output.value.rec.base_kv = 290
    /\ output.value.rec.bus_type = 3

\* C20: for a well-formed bus line area is the integer value of the first
\* float token among the token indices 6..9 (default 1) and zone the integer
\* value of the token right after it when that is numeric (default 1); the
\* scan does not depend on the base-kV scan: when the first float token of
\* the indices 2..7 is at index 6 or 7 it gives both base_kv and area.
C20_AreaAndZone ==
    BusParsed =>
        LET parts == BusTokenize(input.line)
            found == FloatsAmong(parts, 6, 9)
            early == FloatsAmong(parts, 2, 7)
            b == output.value.rec
        IN /\ IF found = {} THEN b.area = 1 /\ b.zone = 1
              ELSE /\ b.area = Trunc(FloatVal(P(parts, SetMin(found))))
                   /\ b.zone = IntAfter(parts, SetMin(found) + 1)
           /\ (early # {} /\ SetMin(early) >= 6) =>
                 /\ b.base_kv = FloatVal(P(parts, SetMin(early)))
                 /\ b.area = Trunc(FloatVal(P(parts, SetMin(early))))

\* no float token among 2..5, token 6 is 5 and token 7 is 6.9: token 6 is the
\* base kV 5.0 and the area 5, token 7 is the bus type 6 and the zone 6
C20_Witness ==
    /\ BusParsed
    /\ LET parts == BusTokenize(input.line)
       IN /\ FloatsAmong(parts, 2, 5) = {}
          /\ P(parts, 6) = "5"
          /\ P(parts, 7) = "6.9"
    /\ output.value.rec.base_kv = 500
    /\ output.value.rec.area = 5
    /\ output.value.rec.zone = 6
    /\ output.value.rec.bus_type = 6

----------------------------------------------------------------------------
(* C21: a transformer header among the last three lines of the section *)

\* a candidate line of at least 8 tokens whose first two are integers
IsTxHeader(k) ==
    LET line == Strip(Line(k)) parts == Split(line)
    IN Candidate(line) /\ Len(parts) >= 8 /\ IsInt(P(parts, 0)) /\ IsInt(P(parts, 1))

\* the headers of the transformer range with fewer than 4 lines left before its end
LateTxHeaders ==
    {k \in Rows("tx") : k + 3 >= rng["tx"].end /\ IsTxHeader(k)}

\* C21: a transformer header within the last three lines of the section is
\* never processed: no record is built for it and nothing is raised or logged
\* for it; the continuation lines of every processed header lie before the
\* section end, so neither the terminator line nor a line past the end of the
\* input is read as one.
C21_LateHeaderNeverRead ==
    pc \in {"tx", "done"} =>
        /\ \A k \in LateTxHeaders : k \notin visited["tx"]
        /\ \A k \in visited["tx"] :
              /\ k + 3 < rng["tx"].end
              /\ k + 3 < NumLines
        /\ \A w \in 1..Len(log) :
              log[w].kind = "transformer" => (log[w].lineno - 1) \in visited["tx"]
        /\ pc = "done" =>
              Len(transformers) =
                 Cardinality({k \in visited["tx"] : RowOutcome("tx", k).kind = "record"})

\* the section is a header and two continuation lines: the parse has ended
\* with no transformer and no warning
C21_Witness ==
    /\ pc = "done"
    /\ LateTxHeaders # {}
    /\ rng["tx"].end - rng["tx"].start = 3
    /\ rng["tx"].start \in LateTxHeaders
    /\ transformers = <<>>
    /\ log = <<>>

----------------------------------------------------------------------------
(* C22, C23: the fields of a transformer record *)

TxParsed == input.fn = "transformer_block" /\ output.done /\ output.value.kind = "record"

\* the whitespace tokens of the line d lines after the header
TxTokens(d) == Split(Strip(Line(input.index + d)))

\* C22: resistance, reactance and nominal MVA are the first three tokens of
\* the line after the header, or 0.0 / 0.0 / 100.0 when it has fewer than 3
\* tokens; tap position and from-side voltage are the first two tokens of the
\* next line, or 1.0 / 110.0 when it has fewer than 2; the tap and angle
\* ranges and the descriptive metadata are the same constants in every record.
C22_ImpedanceTapAndConstants ==
    TxParsed =>
        LET imp == TxTokens(1)
            par == TxTokens(2)
            t == output.value.rec
        IN /\ IF Len(imp) >= 3
              THEN /\ t.resistance = FloatVal(imp[1])
                   /\ t.reactance = FloatVal(imp[2])
                   /\ t.nominal_mva = FloatVal(imp[3])
              ELSE t.resistance = 0 /\ t.reactance = 0 /\ t.nominal_mva = 10000
           /\ IF Len(par) >= 2
              THEN t.tap_position = FloatVal(par[1]) /\ t.from_bus_voltage = FloatVal(par[2])
              ELSE t.tap_position = 100 /\ t.from_bus_voltage = 11000
           /\ <<t.min_tap, t.max_tap, t.step_size>> = <<90, 110, 1>>
           /\ <<t.min_angle, t.max_angle, t.angle_step>> = <<-3000, 3000, 100>>
           /\ <<t.brand, t.model, t.cooling_type, t.vector_group, t.year_manufactured>>
                 = <<"Unknown", "Standard", "ONAN", "YNd11", 2000>>

\* a two-token impedance line gives the defaults, a full tap line its values
C22_Witness ==
    /\ TxParsed
    /\ TxTokens(1) = <<"0.1", "0.2">>
    /\ TxTokens(2) = <<"0.95", "33", "7">>
    /\ output.value.rec.resistance = 0
    /\ output.value.rec.nominal_mva = 10000
    /\ output.value.rec.tap_position = 95
    /\ output.value.rec.from_bus_voltage = 3300

\* C23: to-side voltage is token 1 of the fourth line (33.0 when it has fewer
\* than 2 tokens); the name is the first word after token 1 with its quote
\* characters, single or double, stripped; without such a word the name is
\* TX_<from>_<to>.
C23_SecondaryVoltageAndName ==
    TxParsed =>
        LET vol == TxTokens(3)
            t == output.value.rec
            word == IF Len(vol) > 2 THEN StripChars(vol[3], {"'", "\""}) ELSE ""
        IN /\ t.to_bus_voltage = IF Len(vol) >= 2 THEN FloatVal(vol[2]) ELSE 3300
           /\ t.name = IF word # "" THEN word
                       ELSE "TX_" \o IntStr(t.from_bus) \o "_" \o IntStr(t.to_bus)

----------------------------------------------------------------------------
(* C24: brand and model of a generator record *)

QuoteChars == {"'", "\""}

\* the words of the description that starts at token index j
C24_Words(parts, j) ==
    Split(StripChars(Join(SubSeq(parts, j + 1, Len(parts))), QuoteChars))

\* C24: the description starts at the first token that begins with a quote
\* character; brand is its first word after quote-stripping and re-splitting,
\* model its next up to two words; without such a token both are empty; and
\* the generator id (token 1) is not taken as the brand.
C24_BrandFromDescription ==
    GenParsed =>
        LET parts == Split(input.line)
            quoted == {j \in 0..(Len(parts) - 1) :
                          Ch(P(parts, j), 1) \in QuoteChars}
            g == output.value.rec
        IN /\ IF quoted = {} THEN g.brand = "" /\ g.model = ""
              ELSE LET d == C24_Words(parts, SetMin(quoted))
                   IN /\ g.brand = IF d = <<>> THEN "" ELSE d[1]
                      /\ g.model = IF Len(d) > 1
                                   THEN Join(SubSeq(d, 2, Min2(Len(d), 3))) ELSE ""
           /\ g.brand # "" => g.brand # LStrip(P(parts, 1), QuoteChars)

----------------------------------------------------------------------------
(* C25: the fields of a branch record *)

BranchApplied == input.fn = "branch_line" /\ output.done

\* tokens 0 and 1 are integers and the tokens present among 3..6 are floats
C25_Numeric(parts) ==
    /\ Len(parts) >= 2
    /\ IsInt(P(parts, 0)) /\ IsInt(P(parts, 1))
    /\ \A j \in 3..6 : j < Len(parts) => IsFloat(P(parts, j))

\* the token at index j as a float, or the literal default when it is missing
C25_FloatOr(parts, j, default) ==
    IF j < Len(parts) THEN FloatVal(P(parts, j)) ELSE default

\* tokens 0..6 taken positionally, a missing token replaced by its default
C25_Positional(parts, b) ==
    /\ b.from_bus = IntVal(P(parts, 0))
    /\ b.to_bus = IntVal(P(parts, 1))
    /\ b.circuit_id = IF Len(parts) > 2 THEN StripChars(P(parts, 2), {"'"}) ELSE "1"
    /\ b.resistance = C25_FloatOr(parts, 3, 0)
    /\ b.reactance = C25_FloatOr(parts, 4, 0)
    /\ b.charging_susceptance = C25_FloatOr(parts, 5, 0)
    /\ b.mva_rating = C25_FloatOr(parts, 6, 10000)
    /\ b.length_km = 100
    /\ <<b.conductor_type, b.tower_type, b.brand, b.year_installed>>
          = <<"Unknown", "Unknown", "Unknown", 2000>>

\* C25: the Branch builder maps tokens 0..6 of a branch line positionally to
\* from-bus, to-bus, circuit id, resistance, reactance, charging susceptance
\* and MVA rating, with the literal default for each field whose token is
\* missing on a short line; the other fields are fixed defaults.
C25_PositionalWithDefaults ==
    LET parts == Split(input.line) IN
    (BranchApplied /\ C25_Numeric(parts)) =>
        /\ output.value.kind = "record"
        /\ C25_Positional(parts, output.value.rec)

\* C25 as the code has it: a record is built exactly for a line of at least 8
\* tokens with integer bus numbers and float tokens 3..6, its fields are the
\* tokens 0..6 in order and the fixed defaults; a shorter line gives no record
\* and no warning, so no field ever takes its literal default.
C25_PositionalFromEightTokens ==
    BranchApplied =>
        LET parts == Split(input.line) IN
        /\ output.value.kind = "record" <=> (Len(parts) >= 8 /\ C25_Numeric(parts))
        /\ output.value.kind = "record" => C25_Positional(parts, output.value.rec)
        /\ Len(parts) < 8 => output.value.kind = "none"

\* a five-token line with numeric fields gives no record
C25_Witness ==
    /\ BranchApplied
    /\ input.line = "1 2 'B' 0.01 0.1"
    /\ output.value = NoRecord

----------------------------------------------------------------------------
(* C26: the Load builder *)

\* at least 5 whitespace tokens, token 0 an integer, tokens 2 and 3 numeric
C26_WellFormed(line) ==
    LET parts == Split(line) IN
    /\ Len(parts) >= 5
    /\ IsInt(P(parts, 0))
    /\ IsFloat(P(parts, 2)) /\ IsFloat(P(parts, 3))

\* tokens 0..4 in their fixed order
C26_Record(line) ==
    LET parts == Split(line) IN
    [bus_number |-> IntVal(P(parts, 0)),
     id |-> StripChars(P(parts, 1), {"'"}),
     active_power |-> FloatVal(P(parts, 2)),
     reactive_power |-> FloatVal(P(parts, 3)),
     load_type |-> P(parts, 4),
     voltage_dependence |-> 1,
     area |-> 1,
     zone |-> 1]

RECURSIVE C26_AllFrom(_, _)
\* one record per well-formed line of the rows k..last, in input order
C26_AllFrom(k, last) ==
    IF k > last THEN <<>>
    ELSE (IF C26_WellFormed(Strip(Line(k))) THEN <<C26_Record(Strip(Line(k)))>> ELSE <<>>)
         \o C26_AllFrom(k + 1, last)

RECURSIVE C26_CandidatesFrom(_, _)
\* the same, leaving out the lines whose first character is 0
C26_CandidatesFrom(k, last) ==
    IF k > last THEN <<>>
    ELSE (IF C26_WellFormed(Strip(Line(k))) /\ SubSeq(Strip(Line(k)), 1, 1) # "0"
          THEN <<C26_Record(Strip(Line(k)))>> ELSE <<>>)
         \o C26_CandidatesFrom(k + 1, last)

\* C26: the Load builder creates a record exactly for the lines of its range
\* with at least 5 whitespace tokens whose token 0 is an integer and whose
\* tokens 2 and 3 are numeric, from tokens 0..4 in that order; the load
\* sequence keeps the input order and the duplicates.
C26_LoadsOfWellFormedLines ==
    pc = "done" => loads = C26_AllFrom(rng["load"].start, rng["load"].end - 1)

\* C26 as the code has it: the same, for the lines whose first non-blank
\* character is not 0.
C26_LoadsOfCandidateLines ==
    pc = "done" => loads = C26_CandidatesFrom(rng["load"].start, rng["load"].end - 1)

\* a load line for bus 05 lies between two default lines: the two default
\* lines give two equal records, the line between them none
C26_Witness ==
    /\ pc = "done"
    /\ \E k \in Rows("load") :
          /\ C26_WellFormed(Strip(Line(k)))
          /\ SubSeq(Strip(Line(k)), 1, 1) = "0"
    /\ Len(loads) = 2
    /\ loads[1] = loads[2]

----------------------------------------------------------------------------
(* C27: the base frequency *)

\* the part of the line after the first BASEFREQ, in any case; "" without one
C27_AfterKeyword(line) ==
    LET at == {k \in 1..(Len(line) - 7) : Upper(SubSeq(line, k, k + 7)) = "BASEFREQ"}
    IN IF at = {} THEN "" ELSE From(line, SetMin(at) + 8)

\* the lines among the first 10 that hold BASEFREQ with a number after it
C27_FrequencyLines ==
    {k \in 0..(Min2(NumLines, 10) - 1) : HasNumber(C27_AfterKeyword(Line(k)))}

\* C27: if one of the first 10 lines contains BASEFREQ, in any case, followed
\* on that line by a decimal number, base_frequency is that number, the one
\* after the keyword and not one before it; without such a line it stays 50.0.
C27_FrequencyFollowsKeyword ==
    pc # "idle" =>
        IF C27_FrequencyLines = {} THEN conversion_info.base_frequency = 5000
        ELSE \E k \in C27_FrequencyLines :
                conversion_info.base_frequency
                    = FloatVal(FirstNumber(C27_AfterKeyword(Line(k))))

----------------------------------------------------------------------------
\* a step of an output generator: one that extends the list of generated
\* files, or a generator call that ends by raising
C28_GeneratorStep ==
    \/ generated' # generated
    \/ /\ Len(calls') = Len(calls) + 1
       /\ calls'[Len(calls')].name \in GeneratorNames

(* C28: generate_powerfactory_raw, generate_metadata_json and
   generate_excel_report only serialize: a step of any of them, inside convert
   or called on its own, in any order and any number of times, leaves the five
   collections, the statistics, the conversion info, the brand data and the
   top-level keys of the metadata unchanged, and a .raw file it writes is the
   file of the model as it was before the call, whatever was generated
   before. *)
C28_SerializersChangeNothing ==
    [][C28_GeneratorStep
          => /\ collections' = collections
             /\ statistics' = statistics
             /\ conversion_info' = conversion_info
             /\ brand_data' = brand_data
             /\ metadata_keys' = metadata_keys
             /\ raw' = raw \/ \E now \in Clock : raw' = RawFile(now)]_vars

\* after a parse that built loads and generators, the JSON and the .raw
\* generators were called on their own, in the opposite order to convert's
C28_Witness ==
    /\ calls = <<Finished("parse_ems_file", "returned"),
                 Finished("generate_metadata_json", "returned"),
                 Finished("generate_powerfactory_raw", "returned")>>
    /\ generated = <<"generate_metadata_json", "generate_powerfactory_raw">>
    /\ loads # <<>>
    /\ generators # <<>>
    /\ "detailed_equipment" \notin metadata_keys
    /\ \E now \in Clock : raw = RawFile(now)

----------------------------------------------------------------------------
\* the first non-whitespace character of line k is '0'
C29_ZeroLed(k) == StartsWith(Strip(Line(k)), "0")

\* one iteration of the loop of a builder, on line i
C29_Iteration == pc \in SectionSet /\ pc' = pc /\ i' # i

(* C29: in each of the five builders, the iteration on a line whose first
   non-whitespace character is '0' (a "0 / End of ..." terminator inside the
   range, or a row that is well-formed but for a first token beginning with 0)
   adds no record to any collection, records no brand data and logs no
   warning, and moves the cursor by exactly 1, in the Transformer builder
   too. *)
C29_ZeroLedLineSkipped ==
    [][(C29_Iteration /\ C29_ZeroLed(i))
          => /\ collections' = collections
             /\ brand_data' = brand_data
             /\ log' = log
             /\ i' = i + 1]_vars

\* the Transformer builder has just passed the header, beginning with 0, of
\* an otherwise well-formed block: the cursor is on its impedance line, and
\* there is no record and no warning
C29_Witness ==
    /\ pc = "tx"
    /\ i - 1 \in visited["tx"]
    /\ Strip(Line(i - 1)) = "01 2 '1' 1 1 0 0 0"
    /\ Len(Split(Line(i))) = 3
    /\ transformers = <<>>
    /\ log = <<>>

----------------------------------------------------------------------------
\* the terminator marker of section s occurs in no line of the input
C30_Absent(s) == \A k \in 0..(NumLines - 1) : ~Contains(Line(k), MarkerOf(s))

\* the index of the first line that holds the marker of section s
C30_FirstMarker(s) == SetMin({k \in 0..(NumLines - 1) : Contains(Line(k), MarkerOf(s))})

\* the name under which the builder of section s logs its warnings
C30_Kind(s) ==
    CASE s = "bus" -> "bus" [] s = "load" -> "load" [] s = "gen" -> "generator"
      [] s = "branch" -> "branch" [] s = "tx" -> "transformer"

(* C30: for section k among Bus, Load, Generator, Branch and its successor
   k+1: when the marker of k occurs nowhere in the input, the builder of k+1
   reads no line, builds no record and logs no warning at any time, and once
   parse_ems_file has finished the range of k ends at len(lines) with every
   line from its start to the last one read, and the range of k+1 is
   (len(lines)+1, len(lines)); when the marker of k is present, the range of
   k+1 starts on the line after its first occurrence, whichever markers
   before it are missing, and that line is the first one k+1 reads. *)
C30_MissingTerminator ==
    \A k \in 1..(Len(Sections) - 1) :
        LET s == Sections[k]
            n == Sections[k + 1]
        IN IF C30_Absent(s)
           THEN /\ visited[n] = {}
                /\ EntityCount(n) = 0
                /\ \A w \in 1..Len(log) : log[w].kind # C30_Kind(n)
                /\ pc = "done"
                      => /\ rng[s].end = NumLines
                         /\ visited[s] = rng[s].start..(NumLines - 1)
                         /\ rng[n] = [start |-> NumLines + 1, end |-> NumLines]
           ELSE pc = "done"
                   => /\ rng[n].start = C30_FirstMarker(s) + 1
                      /\ visited[n] # {} => SetMin(visited[n]) = rng[n].start

\* the Bus marker is missing and the Load marker present: the Bus builder read
\* the last line of the file, the Load builder got the range after the end and
\* built nothing, the Generator builder built its record, nothing was logged
C30_Witness ==
    /\ pc = "done"
    /\ C30_Absent("bus")
    /\ ~C30_Absent("load")
    /\ NumLines - 1 \in visited["bus"]
    /\ rng["load"].start = NumLines + 1
    /\ loads = <<>>
    /\ generators # <<>>
    /\ log = <<>>

============================================================================
